---- MODULE Spec2Model ----
(***************************************************************************)
(* Marker gap-fill engine of pyc3dserver (src/pyc3dserver/pyc3dserver.py). *)
(*                                                                         *)
(* The C3Dserver session (itf) is modelled as two maps, resid and pos,     *)
(* from marker name to a per-frame array.  A residual is -1 (blocked),     *)
(* 0 (recovered by a fill) or positive (measured).  A position is a token  *)
(* that records where the coordinates come from: the file, or a fill       *)
(* strategy together with the bracket frames fr0, fr1 it used.  The        *)
(* floating point geometry (local frames, Kabsch fit, splines) is not      *)
(* evaluated; which frames are read and which are written is.              *)
(* Frames are 0-based as in the numpy arrays of the source.                *)
(***************************************************************************)
EXTENDS Integers, Sequences, FiniteSets, TLC

\* ---------------------------------------------------------------- bounds
\* frames of the recording; blocked frames of the donor / first cluster marker
NFrames == 5
MaxInvalid == 1

\* ------------------------------------------------------ program constants
Blocked == -1
Recovered == 0
Measured == 1
SplineK == 3

Frames == 0..(NFrames - 1)
Markers == {"TGT", "CL1", "CL2", "CL3"}
TgtName == "TGT"
ClNames == <<"CL1", "CL2", "CL3">>
DnrName == "CL1"
\* the values the callers pass for search_span_offset and min_needed_frs
SpanOffsets == {0, 1}
MinNeededFrs == {1, 2, 3}

\* resid, pos: the point data of the session; last: the fill call under way
\* plates: the force platform part of the session (parameters and analog
\* data); fpout: the get_fp_output call under way
VARIABLES resid, pos, last, plates, fpout
vars == <<resid, pos, last, plates, fpout>>

\* ------------------------------------------------------------ numpy helpers
\* np.isclose(r, -1): the residuals of the model are whole numbers, so the
\* tolerance (1e-5) separates -1 from every other value.
\* a mask test that takes no residual for the sentinel
IsCloseBlocked_Never(r) == FALSE

\* a mask test that takes every residual below a measured one for blocked
IsCloseBlocked_NonPositive(r) == r <= 0

IsCloseBlocked(r) == r = Blocked

\* np.where(np.isclose(resid, -1), False, True)
ValidMask(res) == [f \in Frames |-> ~IsCloseBlocked(res[f])]

CountNonzero(mask) == Cardinality({f \in Frames : mask[f]})

NpAny(mask) == \E f \in Frames : mask[f]

\* a conjunction that takes the first mask alone
MaskAnd_First(m1, m2) == m1

MaskAnd(m1, m2) == [f \in Frames |-> m1[f] /\ m2[f]]

\* a negation that leaves the mask as it is
MaskNot_Keep(m) == m

MaskNot(m) == [f \in Frames |-> ~m[f]]

\* np.where(mask)[0] from frame f on: the frames where mask holds, in
\* increasing order
RECURSIVE WhereFrom(_, _)
WhereFrom(mask, f) ==
  IF f >= NFrames THEN <<>>
  ELSE (IF mask[f] THEN <<f>> ELSE <<>>) \o WhereFrom(mask, f + 1)

\* np.where(mask)[0]
Where(mask) == WhereFrom(mask, 0)

\* np.searchsorted(a, v), side='left': the number of elements below v
SearchSorted(a, v) == Cardinality({i \in DOMAIN a : a[i] < v})

\* a[i] of a numpy array: 0-based, a negative index counts from the end,
\* anything else outside the array raises IndexError
PyInRange(a, i) == i >= -Len(a) /\ i < Len(a)
PyAt(a, i) == a[(IF i < 0 THEN i + Len(a) ELSE i) + 1]

\* (np.abs(a - fr)).argmin(): 0-based index of the first nearest element
ArgMinAbs(a, fr) ==
  LET Abs(x) == IF x < 0 THEN -x ELSE x
      best == CHOOSE i \in DOMAIN a :
                 /\ \A j \in DOMAIN a : Abs(a[i] - fr) <= Abs(a[j] - fr)
                 /\ \A j \in DOMAIN a : Abs(a[j] - fr) = Abs(a[i] - fr) => i <= j
  IN best - 1

\* ceil(n/2) for n >= 0
CeilHalf(n) == (n + 1) \div 2

\* ------------------------------------------------------------ the session
\* get_marker_data returns None when the marker is not in the session
MarkerPresent(name) == name \in DOMAIN resid

FilePos(f) == [by |-> "file", fr0 |-> f, fr1 |-> f]
FillPos(by, a, b) == [by |-> by, fr0 |-> a, fr1 |-> b]

\* a blend that gives each bracket frame the weight of its own distance
BlendPos_Swapped(by, fr, fr0, fr1) ==
  [by |-> by, fr0 |-> fr0, fr1 |-> fr1,
   w0 |-> <<fr - fr0, (fr - fr0) + (fr1 - fr)>>,
   w1 |-> <<fr1 - fr, (fr - fr0) + (fr1 - fr)>>]

\* (b*x[fr0] + a*x[fr1])/(a + b) with a = fr - fr0, b = fr1 - fr: the
\* weights of the two bracket frames, as <<numerator, denominator>>
BlendPos(by, fr, fr0, fr1) ==
  [by |-> by, fr0 |-> fr0, fr1 |-> fr1,
   w0 |-> <<fr1 - fr, (fr - fr0) + (fr1 - fr)>>,
   w1 |-> <<fr - fr0, (fr - fr0) + (fr1 - fr)>>]

\* the SetPointDataEx / SetPointData calls of set_marker_pos
PosWrites(name) ==
  << [call |-> "SetPointDataEx", mkr |-> name, ch |-> 0, fr |-> 0],
     [call |-> "SetPointDataEx", mkr |-> name, ch |-> 1, fr |-> 0],
     [call |-> "SetPointDataEx", mkr |-> name, ch |-> 2, fr |-> 0] >>

\* a residual write-back of the array write alone
ResidWrites_ArrayOnly(name, res) ==
  << [call |-> "SetPointDataEx", mkr |-> name, ch |-> 3, fr |-> 0] >>

\* the calls of set_marker_resid: one array write, then one single-frame
\* write for every frame whose residual equals 1
ResidWrites(name, res) ==
  LET ones == Where([f \in Frames |-> res[f] = 1])
  IN << [call |-> "SetPointDataEx", mkr |-> name, ch |-> 3, fr |-> 0] >>
     \o [i \in 1..Len(ones) |->
           [call |-> "SetPointData", mkr |-> name, ch |-> 3, fr |-> ones[i]]]

\* what a strategy hands back: raised (an exception left the function),
\* the returned pair (updated, n), and the local arrays coords / res
Out(raised, updated, n, coords, res) ==
  [raised |-> raised, updated |-> updated, n |-> n, coords |-> coords, res |-> res,
   log |-> IF raised THEN "error" ELSE IF updated THEN "finished" ELSE "skipped"]

\* a count taken from the session, which still holds the data before the call
UpdatedCount_Stale(res) == CountNonzero(ValidMask(resid[TgtName]))

\* n_tgt_mkr_valid_frs_updated: the valid frames of the local residual array
UpdatedCount(res) == CountNonzero(ValidMask(res))

NoOp(n) == Out(FALSE, FALSE, n, <<>>, <<>>)

\* the text of the logger.info call before a return of (False, n): the
\* word "skipped", followed by a reason on the returns that state one
NoValidTarget == "skipped: no valid target marker frame"
AllTargetValid == "skipped: all target marker frames valid"
NoCommonValid == "skipped: no common valid frame among markers"
ClusterNotHelpful == "skipped: cluster markers not helpful"
NoValidDonor == "skipped: no valid donor marker frame"
NoCommonDonor == "skipped: no valid common frame between target and donor markers"
NoReason == "skipped"

\* return False, n after logging msg
Skip(n, msg) == [NoOp(n) EXCEPT !.log = msg]

\* an absent marker taken for a call that has nothing to do
Raise_Returns == Out(FALSE, FALSE, 0, <<>>, <<>>)

Raise == Out(TRUE, FALSE, 0, <<>>, <<>>)

\* a mask that is true where at least one cluster marker is valid
ClusterValidMask_Any(names) ==
  [f \in Frames |-> \E i \in DOMAIN names : ~IsCloseBlocked(resid[names[i]][f])]

\* cl_mkr_valid_mask: AND over the named cluster markers
ClusterValidMask(names) ==
  [f \in Frames |-> \A i \in DOMAIN names : ~IsCloseBlocked(resid[names[i]][f])]

AllPresent(names) == \A i \in DOMAIN names : MarkerPresent(names[i])

\* ------------------------------------------------------ recover_marker_rel
\* every frame takes the offset of the single nearest jointly valid frame
rel_Neighbors_NearestOnly(all_mkr_valid_frs, fr) ==
  LET i == ArgMinAbs(all_mkr_valid_frs, fr)
  IN FillPos("rel", PyAt(all_mkr_valid_frs, i), PyAt(all_mkr_valid_frs, i))

\* the frames whose relative offsets are combined for frame fr
rel_Neighbors(all_mkr_valid_frs, fr) ==
  LET search_idx == SearchSorted(all_mkr_valid_frs, fr)
  IN IF search_idx >= Len(all_mkr_valid_frs) \/ search_idx = 0
     THEN LET i == ArgMinAbs(all_mkr_valid_frs, fr)
          IN FillPos("rel", PyAt(all_mkr_valid_frs, i), PyAt(all_mkr_valid_frs, i))
     ELSE BlendPos("rel", fr, PyAt(all_mkr_valid_frs, search_idx - 1),
                              PyAt(all_mkr_valid_frs, search_idx))

recover_marker_rel(tgt_mkr_name, cl_mkr_names) ==
  IF ~MarkerPresent(tgt_mkr_name) THEN Raise ELSE
  LET tgt_mkr_coords == pos[tgt_mkr_name]
      tgt_mkr_resid == resid[tgt_mkr_name]
      tgt_mkr_valid_mask == ValidMask(tgt_mkr_resid)
      n_tgt_mkr_valid_frs == CountNonzero(tgt_mkr_valid_mask)
  IN IF n_tgt_mkr_valid_frs = 0 THEN Skip(n_tgt_mkr_valid_frs, NoValidTarget)
     ELSE IF n_tgt_mkr_valid_frs = NFrames THEN Skip(n_tgt_mkr_valid_frs, AllTargetValid)
     ELSE IF ~AllPresent(cl_mkr_names) THEN Raise
     ELSE
  LET cl_mkr_valid_mask == ClusterValidMask(cl_mkr_names)
      all_mkr_valid_mask == MaskAnd(cl_mkr_valid_mask, tgt_mkr_valid_mask)
      cl_mkr_only_valid_mask == MaskAnd(cl_mkr_valid_mask, MaskNot(tgt_mkr_valid_mask))
      all_mkr_valid_frs == Where(all_mkr_valid_mask)
      coords2 == [f \in Frames |->
                    IF cl_mkr_only_valid_mask[f]
                    THEN rel_Neighbors(all_mkr_valid_frs, f)
                    ELSE tgt_mkr_coords[f]]
      resid2 == [f \in Frames |->
                    IF cl_mkr_only_valid_mask[f] THEN Recovered ELSE tgt_mkr_resid[f]]
  IN IF ~NpAny(all_mkr_valid_mask) THEN Skip(n_tgt_mkr_valid_frs, NoCommonValid)
     ELSE IF ~NpAny(cl_mkr_only_valid_mask) THEN Skip(n_tgt_mkr_valid_frs, ClusterNotHelpful)
     ELSE Out(FALSE, TRUE, UpdatedCount(resid2), coords2, resid2)

\* ------------------------------------------------------ recover_marker_rbt
\* the jointly valid frames whose rotated offsets give frame fr
rbt_Neighbors(all_mkr_valid_frs, fr) ==
  LET search_idx == SearchSorted(all_mkr_valid_frs, fr)
  IN IF search_idx = 0
     THEN FillPos("rbt", PyAt(all_mkr_valid_frs, 0), PyAt(all_mkr_valid_frs, 0))
     ELSE IF search_idx >= Len(all_mkr_valid_frs)
     THEN FillPos("rbt", PyAt(all_mkr_valid_frs, Len(all_mkr_valid_frs) - 1),
                         PyAt(all_mkr_valid_frs, Len(all_mkr_valid_frs) - 1))
     ELSE BlendPos("rbt", fr, PyAt(all_mkr_valid_frs, search_idx - 1),
                              PyAt(all_mkr_valid_frs, search_idx))

recover_marker_rbt(tgt_mkr_name, cl_mkr_names) ==
  IF ~MarkerPresent(tgt_mkr_name) THEN Raise ELSE
  LET tgt_mkr_coords == pos[tgt_mkr_name]
      tgt_mkr_resid == resid[tgt_mkr_name]
      tgt_mkr_valid_mask == ValidMask(tgt_mkr_resid)
      n_tgt_mkr_valid_frs == CountNonzero(tgt_mkr_valid_mask)
  IN IF n_tgt_mkr_valid_frs = 0 THEN Skip(n_tgt_mkr_valid_frs, NoValidTarget)
     ELSE IF n_tgt_mkr_valid_frs = NFrames THEN Skip(n_tgt_mkr_valid_frs, AllTargetValid)
     ELSE IF ~AllPresent(cl_mkr_names) THEN Raise
     ELSE
  LET cl_mkr_valid_mask == ClusterValidMask(cl_mkr_names)
      all_mkr_valid_mask == MaskAnd(cl_mkr_valid_mask, tgt_mkr_valid_mask)
      cl_mkr_only_valid_mask == MaskAnd(cl_mkr_valid_mask, MaskNot(tgt_mkr_valid_mask))
      all_mkr_valid_frs == Where(all_mkr_valid_mask)
      coords2 == [f \in Frames |->
                    IF cl_mkr_only_valid_mask[f]
                    THEN rbt_Neighbors(all_mkr_valid_frs, f)
                    ELSE tgt_mkr_coords[f]]
      resid2 == [f \in Frames |->
                    IF cl_mkr_only_valid_mask[f] THEN Recovered ELSE tgt_mkr_resid[f]]
  IN IF ~NpAny(all_mkr_valid_mask) THEN Skip(n_tgt_mkr_valid_frs, NoCommonValid)
     ELSE IF ~NpAny(cl_mkr_only_valid_mask) THEN Skip(n_tgt_mkr_valid_frs, ClusterNotHelpful)
     ELSE Out(FALSE, TRUE, UpdatedCount(resid2), coords2, resid2)

\* ----------------------------------------------------- fill_marker_gap_rbt
\* a bracket that is always the first two jointly valid frames
gaprbt_Bracket_FirstTwo(all_mkr_valid_frs, fr) ==
  IF ~PyInRange(all_mkr_valid_frs, 0) \/ ~PyInRange(all_mkr_valid_frs, 1)
  THEN [raised |-> TRUE, fr0 |-> 0, fr1 |-> 0]
  ELSE [raised |-> FALSE, fr0 |-> PyAt(all_mkr_valid_frs, 0),
                          fr1 |-> PyAt(all_mkr_valid_frs, 1)]

\* the bracket frames fr0, fr1 of frame fr; raised when an index is outside
\* all_mkr_valid_frs (IndexError)
gaprbt_Bracket(all_mkr_valid_frs, fr) ==
  LET search_idx == SearchSorted(all_mkr_valid_frs, fr)
      n == Len(all_mkr_valid_frs)
      i0 == IF search_idx = 0 THEN 0 ELSE IF search_idx >= n THEN n - 2 ELSE search_idx - 1
      i1 == IF search_idx = 0 THEN 1 ELSE IF search_idx >= n THEN n - 1 ELSE search_idx
  IN IF ~PyInRange(all_mkr_valid_frs, i0) \/ ~PyInRange(all_mkr_valid_frs, i1)
     THEN [raised |-> TRUE, fr0 |-> 0, fr1 |-> 0]
     ELSE [raised |-> FALSE, fr0 |-> PyAt(all_mkr_valid_frs, i0),
                             fr1 |-> PyAt(all_mkr_valid_frs, i1)]

\* a loop body without the test that fr lies strictly between fr0 and fr1
gaprbt_Fills_NoRange(cl_mkr_valid_mask, br, fr) ==
  /\ ~br.raised
  /\ ~(~cl_mkr_valid_mask[br.fr0] \/ ~cl_mkr_valid_mask[br.fr1])
  /\ ~(\E g \in br.fr0..br.fr1 : ~cl_mkr_valid_mask[g])

\* a loop body that tests the place of fr between fr0 and fr1 only
gaprbt_Fills_NoClusterTest(cl_mkr_valid_mask, br, fr) ==
  /\ ~br.raised
  /\ ~(fr <= br.fr0 \/ fr >= br.fr1)

\* a loop body that tests the cluster at fr0 and fr1 only
gaprbt_Fills_EndpointsOnly(cl_mkr_valid_mask, br, fr) ==
  /\ ~br.raised
  /\ ~(fr <= br.fr0 \/ fr >= br.fr1)
  /\ ~(~cl_mkr_valid_mask[br.fr0] \/ ~cl_mkr_valid_mask[br.fr1])

\* does the loop body reach the two rigid body fits for frame fr
gaprbt_Fills(cl_mkr_valid_mask, br, fr) ==
  /\ ~br.raised
  /\ ~(fr <= br.fr0 \/ fr >= br.fr1)
  /\ ~(~cl_mkr_valid_mask[br.fr0] \/ ~cl_mkr_valid_mask[br.fr1])
  /\ ~(\E g \in br.fr0..br.fr1 : ~cl_mkr_valid_mask[g])

fill_marker_gap_rbt(tgt_mkr_name, cl_mkr_names) ==
  IF ~MarkerPresent(tgt_mkr_name) THEN Raise ELSE
  LET tgt_mkr_coords == pos[tgt_mkr_name]
      tgt_mkr_resid == resid[tgt_mkr_name]
      tgt_mkr_valid_mask == ValidMask(tgt_mkr_resid)
      n_tgt_mkr_valid_frs == CountNonzero(tgt_mkr_valid_mask)
  IN IF n_tgt_mkr_valid_frs = 0 THEN Skip(n_tgt_mkr_valid_frs, NoValidTarget)
     ELSE IF n_tgt_mkr_valid_frs = NFrames THEN Skip(n_tgt_mkr_valid_frs, AllTargetValid)
     ELSE IF ~AllPresent(cl_mkr_names) THEN Raise
     ELSE
  LET cl_mkr_valid_mask == ClusterValidMask(cl_mkr_names)
      all_mkr_valid_mask == MaskAnd(cl_mkr_valid_mask, tgt_mkr_valid_mask)
      cl_mkr_only_valid_mask == MaskAnd(cl_mkr_valid_mask, MaskNot(tgt_mkr_valid_mask))
      all_mkr_valid_frs == Where(all_mkr_valid_mask)
      br == [f \in Frames |-> gaprbt_Bracket(all_mkr_valid_frs, f)]
      fills == [f \in Frames |->
                  cl_mkr_only_valid_mask[f] /\ gaprbt_Fills(cl_mkr_valid_mask, br[f], f)]
      coords2 == [f \in Frames |->
                    IF fills[f] THEN FillPos("gaprbt", br[f].fr0, br[f].fr1)
                    ELSE tgt_mkr_coords[f]]
      resid2 == [f \in Frames |-> IF fills[f] THEN Recovered ELSE tgt_mkr_resid[f]]
      b_updated == NpAny(fills)
  IN IF ~NpAny(all_mkr_valid_mask) THEN Skip(n_tgt_mkr_valid_frs, NoCommonValid)
     ELSE IF ~NpAny(cl_mkr_only_valid_mask) THEN Skip(n_tgt_mkr_valid_frs, ClusterNotHelpful)
     ELSE IF \E f \in Frames : cl_mkr_only_valid_mask[f] /\ br[f].raised THEN Raise
     ELSE IF b_updated
          THEN Out(FALSE, TRUE, UpdatedCount(resid2), coords2, resid2)
          ELSE Skip(n_tgt_mkr_valid_frs, NoReason)

\* ------------------------------------------------------- gap segmentation
\* np.split(a, idx): the pieces of a cut before the 0-based positions idx
NpSplit(a, idx) ==
  [j \in 1..(Len(idx) + 1) |->
     LET lo == IF j = 1 THEN 0 ELSE idx[j - 1]
         hi == IF j = Len(idx) + 1 THEN Len(a) ELSE idx[j]
     IN SubSeq(a, lo + 1, hi)]

\* np.where(np.diff(a) != 1)[0] + 1, from position i on: the 0-based
\* positions whose element is not the successor of the one before
RECURSIVE DiffCuts(_, _)
DiffCuts(a, i) ==
  IF i >= Len(a) THEN <<>>
  ELSE (IF a[i + 1] - a[i] # 1 THEN <<i>> ELSE <<>>) \o DiffCuts(a, i + 1)

\* np.split(invalid_frs, np.where(np.diff(invalid_frs) != 1)[0] + 1)
InvalidGaps(tgt_mkr_valid_mask) ==
  LET tgt_mkr_invalid_frs == Where(MaskNot(tgt_mkr_valid_mask))
  IN NpSplit(tgt_mkr_invalid_frs, DiffCuts(tgt_mkr_invalid_frs, 1))

GapMin(gap) == gap[1]
GapMax(gap) == gap[Len(gap)]

\* a loop head that skips empty gaps only
GapSkipped_EmptyOnly(gap) == Len(gap) = 0

\* the two "continue" tests at the head of the loop over the gaps
GapSkipped(gap) ==
  \/ Len(gap) = 0
  \/ GapMin(gap) = 0 \/ GapMax(gap) = NFrames - 1

\* the valid target frames within search_span frames before and after the gap
NearValidMask(gap, tgt_mkr_valid_mask, search_span_offset) ==
  LET search_span == CeilHalf(Len(gap)) + search_span_offset
  IN [f \in Frames |->
        /\ \/ (f <= GapMin(gap) - 1 /\ f > GapMin(gap) - 1 - search_span)
           \/ (f >= GapMax(gap) + 1 /\ f < GapMax(gap) + 1 + search_span)
        /\ tgt_mkr_valid_mask[f]]

\* ------------------------------------------------- fill_marker_gap_pattern
\* the bracket frames of gap frame fr among gap_near_both_mkr_valid_frs
pattern_Bracket(gap_near_both_mkr_valid_frs, fr) ==
  LET search_idx == SearchSorted(gap_near_both_mkr_valid_frs, fr)
      n == Len(gap_near_both_mkr_valid_frs)
      i0 == IF search_idx = 0 THEN 0 ELSE IF search_idx >= n THEN n - 2 ELSE search_idx - 1
      i1 == IF search_idx = 0 THEN 1 ELSE IF search_idx >= n THEN n - 1 ELSE search_idx
  IN IF ~PyInRange(gap_near_both_mkr_valid_frs, i0)
        \/ ~PyInRange(gap_near_both_mkr_valid_frs, i1)
     THEN [raised |-> TRUE, fr0 |-> 0, fr1 |-> 0]
     ELSE [raised |-> FALSE, fr0 |-> PyAt(gap_near_both_mkr_valid_frs, i0),
                             fr1 |-> PyAt(gap_near_both_mkr_valid_frs, i1)]

\* a gap test without the look at the donor inside the gap
pattern_GapRejected_NoDonorTest(gap, tgt_mkr_valid_mask, dnr_mkr_valid_mask, search_span_offset, min_needed_frs) ==
  \/ GapSkipped(gap)
  \/ CountNonzero(NearValidMask(gap, tgt_mkr_valid_mask, search_span_offset))
        < min_needed_frs

\* is the gap given up before its frames are looked at
pattern_GapRejected(gap, tgt_mkr_valid_mask, dnr_mkr_valid_mask, search_span_offset, min_needed_frs) ==
  \/ GapSkipped(gap)
  \/ CountNonzero(NearValidMask(gap, tgt_mkr_valid_mask, search_span_offset))
        < min_needed_frs
  \/ \E i \in DOMAIN gap : ~dnr_mkr_valid_mask[gap[i]]

\* the loop body for gap frame fr of a gap that was not given up: raised
\* (IndexError), or the bracket frames and whether fr is filled from them
pattern_Frame(gap, fr, tgt_mkr_valid_mask, dnr_mkr_valid_mask, search_span_offset) ==
  LET gap_near_both_mkr_valid_frs ==
        Where(MaskAnd(NearValidMask(gap, tgt_mkr_valid_mask, search_span_offset),
                      dnr_mkr_valid_mask))
      br == pattern_Bracket(gap_near_both_mkr_valid_frs, fr)
  IN [raised |-> br.raised, fr0 |-> br.fr0, fr1 |-> br.fr1,
      fill |-> /\ ~br.raised
               /\ ~(fr <= br.fr0 \/ fr >= br.fr1)
               /\ ~(~dnr_mkr_valid_mask[br.fr0] \/ ~dnr_mkr_valid_mask[br.fr1])]

\* the gap of tgt_mkr_invalid_gaps that holds the invalid frame fr
GapOf(tgt_mkr_invalid_gaps, fr) ==
  LET j == CHOOSE j \in DOMAIN tgt_mkr_invalid_gaps :
              \E i \in DOMAIN tgt_mkr_invalid_gaps[j] : tgt_mkr_invalid_gaps[j][i] = fr
  IN tgt_mkr_invalid_gaps[j]

NoFrame == [raised |-> FALSE, fr0 |-> 0, fr1 |-> 0, fill |-> FALSE]

fill_marker_gap_pattern(tgt_mkr_name, dnr_mkr_name, search_span_offset, min_needed_frs) ==
  IF ~MarkerPresent(tgt_mkr_name) THEN Raise ELSE
  LET tgt_mkr_coords == pos[tgt_mkr_name]
      tgt_mkr_resid == resid[tgt_mkr_name]
      tgt_mkr_valid_mask == ValidMask(tgt_mkr_resid)
      n_tgt_mkr_valid_frs == CountNonzero(tgt_mkr_valid_mask)
  IN IF n_tgt_mkr_valid_frs = 0 THEN Skip(n_tgt_mkr_valid_frs, NoValidTarget)
     ELSE IF n_tgt_mkr_valid_frs = NFrames THEN Skip(n_tgt_mkr_valid_frs, AllTargetValid)
     ELSE IF ~MarkerPresent(dnr_mkr_name) THEN Raise
     ELSE
  LET dnr_mkr_valid_mask == ValidMask(resid[dnr_mkr_name])
      both_mkr_valid_mask == MaskAnd(tgt_mkr_valid_mask, dnr_mkr_valid_mask)
      tgt_mkr_invalid_gaps == InvalidGaps(tgt_mkr_valid_mask)
      \* for gap in tgt_mkr_invalid_gaps: for fr in gap: ...
      per_fr == [f \in Frames |->
                   IF tgt_mkr_valid_mask[f] THEN NoFrame
                   ELSE LET gap == GapOf(tgt_mkr_invalid_gaps, f)
                        IN IF pattern_GapRejected(gap, tgt_mkr_valid_mask,
                                 dnr_mkr_valid_mask, search_span_offset, min_needed_frs)
                           THEN NoFrame
                           ELSE pattern_Frame(gap, f, tgt_mkr_valid_mask,
                                              dnr_mkr_valid_mask, search_span_offset)]
      done == [f \in Frames |->
                 LET r == per_fr[f]
                 IN [raised |-> r.raised, fill |-> r.fill,
                     coords |-> IF r.fill THEN FillPos("pattern", r.fr0, r.fr1)
                                ELSE tgt_mkr_coords[f],
                     res |-> IF r.fill THEN Recovered ELSE tgt_mkr_resid[f]]]
  IN IF ~NpAny(dnr_mkr_valid_mask) THEN Skip(n_tgt_mkr_valid_frs, NoValidDonor)
     ELSE IF ~NpAny(both_mkr_valid_mask) THEN Skip(n_tgt_mkr_valid_frs, NoCommonDonor)
     ELSE LET d == done
              resid2 == [f \in Frames |-> d[f].res]
              b_updated == \E f \in Frames : d[f].fill
          IN IF \E f \in Frames : d[f].raised THEN Raise
             ELSE IF b_updated
             THEN Out(FALSE, TRUE, UpdatedCount(resid2),
                      [f \in Frames |-> d[f].coords], resid2)
             ELSE Skip(n_tgt_mkr_valid_frs, NoReason)

\* -------------------------------------------------- fill_marker_gap_interp
\* InterpolatedUnivariateSpline(x, y, k) needs more than k points
SplineRaises(n_points, k) == n_points <= k

\* the loop body for one gap: skipped, raised by the spline fit, or filled
\* from the candidate frames itpl_cand_frs (lo, hi: their first and last)
interp_Gap(gap, tgt_mkr_valid_mask, k, search_span_offset, min_needed_frs) ==
  LET itpl_cand_frs_mask == NearValidMask(gap, tgt_mkr_valid_mask, search_span_offset)
      n_cand == CountNonzero(itpl_cand_frs_mask)
      skipped == GapSkipped(gap) \/ n_cand < min_needed_frs
      itpl_cand_frs == Where(itpl_cand_frs_mask)
      raised == ~skipped /\ SplineRaises(n_cand, k)
  IN [raised |-> raised,
      fill |-> ~skipped /\ ~raised,
      fr0 |-> IF skipped \/ raised THEN 0 ELSE itpl_cand_frs[1],
      fr1 |-> IF skipped \/ raised THEN 0 ELSE itpl_cand_frs[Len(itpl_cand_frs)]]

fill_marker_gap_interp(tgt_mkr_name, k, search_span_offset, min_needed_frs) ==
  IF ~MarkerPresent(tgt_mkr_name) THEN Raise ELSE
  LET tgt_mkr_coords == pos[tgt_mkr_name]
      tgt_mkr_resid == resid[tgt_mkr_name]
      tgt_mkr_valid_mask == ValidMask(tgt_mkr_resid)
      n_tgt_mkr_valid_frs == CountNonzero(tgt_mkr_valid_mask)
  IN IF n_tgt_mkr_valid_frs = 0 THEN Skip(n_tgt_mkr_valid_frs, NoValidTarget)
     ELSE IF n_tgt_mkr_valid_frs = NFrames THEN Skip(n_tgt_mkr_valid_frs, AllTargetValid)
     ELSE
  LET tgt_mkr_invalid_gaps == InvalidGaps(tgt_mkr_valid_mask)
      \* for gap in tgt_mkr_invalid_gaps: ... for idx, fr in enumerate(gap): ...
      done == [f \in Frames |->
                 LET r == IF tgt_mkr_valid_mask[f] THEN NoFrame
                          ELSE interp_Gap(GapOf(tgt_mkr_invalid_gaps, f),
                                          tgt_mkr_valid_mask, k,
                                          search_span_offset, min_needed_frs)
                 IN [raised |-> r.raised, fill |-> r.fill,
                     coords |-> IF r.fill THEN FillPos("interp", r.fr0, r.fr1)
                                ELSE tgt_mkr_coords[f],
                     res |-> IF r.fill THEN Recovered ELSE tgt_mkr_resid[f]]]
      d == done
      resid2 == [f \in Frames |-> d[f].res]
      b_updated == \E f \in Frames : d[f].fill
  IN IF \E f \in Frames : d[f].raised THEN Raise
     ELSE IF b_updated
          THEN Out(FALSE, TRUE, UpdatedCount(resid2),
                   [f \in Frames |-> d[f].coords], resid2)
          ELSE Skip(n_tgt_mkr_valid_frs, NoReason)

\* ------------------------------------------------------------- write-back
\* set_marker_pos / set_marker_resid over the whole frame range: the session
\* holds the array it was handed
set_marker_pos(mkr_name, mkr_coords) == [pos EXCEPT ![mkr_name] = mkr_coords]
set_marker_resid(mkr_name, mkr_resid) == [resid EXCEPT ![mkr_name] = mkr_resid]

NoCall ==
  [strategy |-> "none", so |-> 0, mn |-> 0,
   raised |-> FALSE, updated |-> FALSE, n |-> 0,
   pre_resid |-> <<>>, pre_pos |-> <<>>, writes |-> <<>>, log |-> ""]

\* the end of a strategy: positions, then residuals, are written when the
\* strategy updated its local arrays; last keeps what the caller observes
\* (exception or returned pair), the target's data before the call and the
\* session writes the call made.  A strategy is called when no call is
\* under way (the module is single threaded).
Finish(strategy, tgt_mkr_name, so, mn, out) ==
  /\ pos' = IF out.updated THEN set_marker_pos(tgt_mkr_name, out.coords) ELSE pos
  /\ resid' = IF out.updated THEN set_marker_resid(tgt_mkr_name, out.res) ELSE resid
  /\ last' = [strategy |-> strategy, so |-> so, mn |-> mn,
              raised |-> out.raised, updated |-> out.updated, n |-> out.n,
              pre_resid |-> IF MarkerPresent(tgt_mkr_name)
                            THEN resid[tgt_mkr_name] ELSE <<>>,
              pre_pos |-> IF MarkerPresent(tgt_mkr_name)
                          THEN pos[tgt_mkr_name] ELSE <<>>,
              writes |-> IF out.updated
                         THEN PosWrites(tgt_mkr_name) \o ResidWrites(tgt_mkr_name, out.res)
                         ELSE <<>>,
              log |-> out.log]
  /\ UNCHANGED <<plates, fpout>>

\* ---------------------------------------------------------------- actions
Idle == last.strategy = "none"

RecoverMarkerRel ==
  /\ Idle
  /\ \E out \in {recover_marker_rel(TgtName, ClNames)} :
     Finish("rel", TgtName, 0, 0, out)

RecoverMarkerRbt ==
  /\ Idle
  /\ \E out \in {recover_marker_rbt(TgtName, ClNames)} :
     Finish("rbt", TgtName, 0, 0, out)

FillMarkerGapRbt ==
  /\ Idle
  /\ \E out \in {fill_marker_gap_rbt(TgtName, ClNames)} :
     Finish("gaprbt", TgtName, 0, 0, out)

FillMarkerGapPattern ==
  /\ Idle
  /\ \E so \in SpanOffsets, mn \in MinNeededFrs :
     \E out \in {fill_marker_gap_pattern(TgtName, DnrName, so, mn)} :
        Finish("pattern", TgtName, so, mn, out)

FillMarkerGapInterp ==
  /\ Idle
  /\ \E so \in SpanOffsets, mn \in MinNeededFrs :
     \E out \in {fill_marker_gap_interp(TgtName, SplineK, so, mn)} :
        Finish("interp", TgtName, so, mn, out)

\* the caller takes the returned pair (or the exception); the session is
\* ready for the next call
Return ==
  /\ last.strategy # "none"
  /\ last' = NoCall
  /\ UNCHANGED <<resid, pos, plates, fpout>>

\* ------------------------------------------------------------------- init
\* A recording as opened from a file: every frame of every marker is either
\* measured or blocked.  The target is blocked on any set of frames, the
\* first cluster marker (also the donor) on at most MaxInvalid frames, the
\* second on at most one frame, the third on none.
\* residual arrays with at most k blocked frames, the others measured
\* a recording without force platforms, and no get_fp_output call under way
NoPlates == [params |-> {}, types |-> <<>>, data |-> <<>>]
NoFpCall ==
  [kind |-> "none", out |-> <<>>, calls |-> <<>>, orgs |-> <<>>, threshold |-> 0,
   cop_nan_to_num |-> FALSE, pre |-> NoPlates]

ResidArrays(k) ==
  {r \in [Frames -> {Blocked, Measured}] :
      Cardinality({f \in Frames : r[f] = Blocked}) <= k}

Init ==
  /\ \E t \in ResidArrays(NFrames), c1 \in ResidArrays(MaxInvalid),
        c2 \in ResidArrays(1) :
        resid = [m \in Markers |->
                   IF m = "TGT" THEN t
                   ELSE IF m = "CL1" THEN c1
                   ELSE IF m = "CL2" THEN c2
                   ELSE [f \in Frames |-> Measured]]
  /\ pos = [m \in Markers |-> [f \in Frames |-> FilePos(f)]]
  /\ last = NoCall
  /\ plates = NoPlates
  /\ fpout = NoFpCall

Next ==
  \/ RecoverMarkerRel
  \/ RecoverMarkerRbt
  \/ FillMarkerGapRbt
  \/ FillMarkerGapPattern
  \/ FillMarkerGapInterp
  \/ Return

Spec == Init /\ [][Next]_vars

\* ================================================================ claims
Called == last.strategy # "none"

PreValid(f) == last.pre_resid[f] # Blocked
PreValidCount == Cardinality({f \in Frames : PreValid(f)})

\* the call made no session write and the target's data are as before it
NoWrite ==
  /\ last.writes = <<>>
  /\ resid[TgtName] = last.pre_resid
  /\ pos[TgtName] = last.pre_pos

\* frames whose coordinates the call replaced
FilledFrames == {f \in Frames : pos[TgtName][f] # last.pre_pos[f]}

\* C1: a call of any strategy on a target with no valid frame returns
\* (False, 0) and writes nothing
C1_NoValidFrame ==
  (Called /\ PreValidCount = 0)
     => (~last.raised /\ ~last.updated /\ last.n = 0 /\ NoWrite)

C1_Witness ==
  /\ last.strategy = "pattern"
  /\ PreValidCount = 0
  /\ ~last.updated /\ last.n = 0

\* C2: a call of any strategy on a target whose frames are all valid,
\* recovered frames (residual 0) included, returns (False, N) and writes
\* nothing
C2_AllValid ==
  (Called /\ PreValidCount = NFrames)
     => (~last.raised /\ ~last.updated /\ last.n = NFrames /\ NoWrite)

C2_Witness ==
  /\ last.strategy = "rbt"
  /\ PreValidCount = NFrames
  /\ \E f \in Frames : last.pre_resid[f] = Recovered
  /\ ~last.updated /\ last.n = NFrames

\* ---- gaps of the target before the call, stated on the residuals alone
\* frames a..b are all blocked before the call
PreBlockedRun(a, b) == \A g \in a..b : ~PreValid(g)

\* first and last frame of the maximal blocked run around a blocked frame f
RunLo(f) == CHOOSE a \in 0..f :
               PreBlockedRun(a, f) /\ (a = 0 \/ PreValid(a - 1))
RunHi(f) == CHOOSE b \in f..(NFrames - 1) :
               PreBlockedRun(f, b) /\ (b = NFrames - 1 \/ PreValid(b + 1))

InBoundaryGap(f) ==
  ~PreValid(f) /\ (PreBlockedRun(0, f) \/ PreBlockedRun(f, NFrames - 1))
InInternalGap(f) == ~PreValid(f) /\ ~InBoundaryGap(f)

ClValid(f) == \A i \in DOMAIN ClNames : resid[ClNames[i]][f] # Blocked
DnrValid(f) == resid[DnrName][f] # Blocked

C4_NeverRaises == Called => ~last.raised

\* C5: the gaps are the maximal runs of consecutive blocked frames of the
\* target, in order; a gap that is empty, starts at frame 0 or ends at
\* frame N-1 is not processed, so fill_marker_gap_pattern and
\* fill_marker_gap_interp fill inside internal runs only
C5_GapSegmentation ==
  LET mask == ValidMask(resid[TgtName])
      gaps == InvalidGaps(mask)
      IsMaxRun(gap) ==
        /\ \A i \in DOMAIN gap : ~mask[gap[i]] /\ gap[i] = gap[1] + (i - 1)
        /\ gap[1] = 0 \/ mask[gap[1] - 1]
        /\ gap[Len(gap)] = NFrames - 1 \/ mask[gap[Len(gap)] + 1]
  IN /\ \A j \in DOMAIN gaps : Len(gaps[j]) > 0 => IsMaxRun(gaps[j])
     /\ \A f \in Frames : ~mask[f] =>
           \E j \in DOMAIN gaps : \E i \in DOMAIN gaps[j] : gaps[j][i] = f
     /\ \A j \in DOMAIN gaps : \A k \in DOMAIN gaps :
           (j < k /\ Len(gaps[j]) > 0 /\ Len(gaps[k]) > 0)
              => gaps[j][Len(gaps[j])] < gaps[k][1]
     /\ \A j \in DOMAIN gaps :
           ~GapSkipped(gaps[j]) =>
              /\ Len(gaps[j]) > 0
              /\ gaps[j][1] # 0
              /\ gaps[j][Len(gaps[j])] # NFrames - 1
     /\ (\A f \in Frames : mask[f]) => \A j \in DOMAIN gaps : GapSkipped(gaps[j])
     /\ (Called /\ last.strategy \in {"pattern", "interp"})
           => \A f \in FilledFrames : InInternalGap(f)

C5_Witness ==
  /\ last.strategy = "pattern"
  /\ last.updated
  /\ Cardinality({f \in Frames : InInternalGap(f) /\ RunLo(f) = f}) >= 2
  /\ Cardinality(FilledFrames) = 1

\* C6: with every cluster marker valid at every frame and an internal gap in
\* the target, recover_marker_rel, recover_marker_rbt and fill_marker_gap_rbt
\* return updated=True and every frame of every internal gap is filled with
\* residual 0; the count is N when the target has no boundary gap
C6_ClusterFillsInternalGap ==
  (/\ Called
   /\ last.strategy \in {"rel", "rbt", "gaprbt"}
   /\ \A f \in Frames : ClValid(f)
   /\ \E f \in Frames : InInternalGap(f))
     => /\ ~last.raised
        /\ last.updated
        /\ \A f \in Frames : InInternalGap(f) =>
              (f \in FilledFrames /\ resid[TgtName][f] = 0)
        /\ (\A f \in Frames : ~InBoundaryGap(f)) => last.n = NFrames

C6_Witness ==
  /\ last.strategy = "gaprbt"
  /\ \A f \in Frames : ClValid(f)
  /\ \E f \in Frames : InInternalGap(f) /\ RunHi(f) - RunLo(f) >= 2
  /\ last.updated /\ last.n = NFrames

\* C7: when a strategy returns updated=True it filled at least one frame,
\* every frame it filled was blocked and now has residual 0, the residuals
\* were written back, and the returned count is the number of frames whose
\* residual is not -1 after the call: the count before plus the frames filled
C7_UpdatedCount ==
  (Called /\ last.updated)
     => /\ ~last.raised
        /\ FilledFrames # {}
        /\ \A f \in FilledFrames : ~PreValid(f) /\ resid[TgtName][f] = 0
        /\ \E i \in DOMAIN last.writes :
              last.writes[i].mkr = TgtName /\ last.writes[i].ch = 3
        /\ last.n = Cardinality({f \in Frames : resid[TgtName][f] # -1})
        /\ last.n = PreValidCount + Cardinality(FilledFrames)

C7_Witness ==
  /\ last.strategy = "interp"
  /\ last.updated
  /\ Cardinality(FilledFrames) = 1
  /\ PreValidCount = NFrames - 1
  /\ last.n = NFrames

\* C8: fill_marker_gap_rbt fills frame fr only if the target and every
\* cluster marker are valid at some fr0 < fr < fr1 and every cluster marker
\* is valid at every frame of fr0..fr1; a frame whose nearest jointly valid
\* frames enclose a frame with a blocked cluster marker stays unfilled
C8_GapRbtInterval ==
  (Called /\ last.strategy = "gaprbt")
     => \A fr \in Frames :
          /\ fr \in FilledFrames =>
                \E fr0 \in 0..(fr - 1) : \E fr1 \in (fr + 1)..(NFrames - 1) :
                   /\ PreValid(fr0) /\ ClValid(fr0)
                   /\ PreValid(fr1) /\ ClValid(fr1)
                   /\ \A g \in fr0..fr1 : ClValid(g)
          /\ (/\ ~PreValid(fr)
              /\ \E fr0 \in 0..(fr - 1) : \E fr1 \in (fr + 1)..(NFrames - 1) :
                    /\ PreValid(fr0) /\ ClValid(fr0)
                    /\ PreValid(fr1) /\ ClValid(fr1)
                    /\ \A g \in (fr0 + 1)..(fr1 - 1) : ~(PreValid(g) /\ ClValid(g))
                    /\ \E g \in fr0..fr1 : ~ClValid(g))
                => (fr \notin FilledFrames /\ resid[TgtName][fr] = -1)

C8_Witness ==
  /\ last.strategy = "gaprbt"
  /\ ~last.raised
  /\ \E fr \in Frames :
        /\ ~PreValid(fr) /\ ClValid(fr)
        /\ \E fr0 \in 0..(fr - 1) : \E fr1 \in (fr + 1)..(NFrames - 1) :
              /\ PreValid(fr0) /\ ClValid(fr0)
              /\ PreValid(fr1) /\ ClValid(fr1)
              /\ \E g \in fr0..fr1 : ~ClValid(g)
        /\ resid[TgtName][fr] = -1

\* C9: when no frame is valid for the target and every supporting marker at
\* once (the cluster for recover_marker_rel, recover_marker_rbt and
\* fill_marker_gap_rbt, the donor for fill_marker_gap_pattern), the call
\* returns (False, count of valid frames before) and writes nothing
C9_NoJointFrame ==
  /\ (/\ Called
      /\ last.strategy \in {"rel", "rbt", "gaprbt"}
      /\ \A f \in Frames : ~(PreValid(f) /\ ClValid(f)))
        => (~last.raised /\ ~last.updated /\ last.n = PreValidCount /\ NoWrite)
  /\ (/\ Called
      /\ last.strategy = "pattern"
      /\ \A f \in Frames : ~(PreValid(f) /\ DnrValid(f)))
        => (~last.raised /\ ~last.updated /\ last.n = PreValidCount /\ NoWrite)

C9_Witness ==
  /\ last.strategy = "rbt"
  /\ PreValidCount = 1
  /\ \E f \in Frames : ClValid(f)
  /\ \A f \in Frames : ~(PreValid(f) /\ ClValid(f))
  /\ ~last.updated /\ last.n = 1

\* ---- the search window of fill_marker_gap_pattern around the gap of f
HalfUp(n) == CHOOSE h \in 0..n : 2 * h >= n /\ 2 * (h - 1) < n
WindowSpan(f) == HalfUp(RunHi(f) - RunLo(f) + 1) + last.so
InWindow(f, w) ==
  \/ RunLo(f) - WindowSpan(f) <= w /\ w <= RunLo(f) - 1
  \/ RunHi(f) + 1 <= w /\ w <= RunHi(f) + WindowSpan(f)
WindowBoth(f) ==
  Cardinality({w \in Frames : InWindow(f, w) /\ PreValid(w) /\ DnrValid(w)})
WindowTarget(f) ==
  Cardinality({w \in Frames : InWindow(f, w) /\ PreValid(w)})
DnrBlockedInGap(f) == \E g \in RunLo(f)..RunHi(f) : ~DnrValid(g)

\* C10 as claimed: a gap with fewer than min_needed_frs window frames valid
\* for both the target and the donor, or with the donor blocked inside the
\* gap, gets no frame filled
C10_Original ==
  (Called /\ last.strategy = "pattern")
     => \A f \in Frames :
           (~PreValid(f) /\ (WindowBoth(f) < last.mn \/ DnrBlockedInGap(f)))
              => f \notin FilledFrames

\* C10: fill_marker_gap_pattern fills no frame of a gap whenever fewer than
\* min_needed_frs frames inside the search window (ceil(gap_size/2) +
\* search_span_offset frames on each side of the gap) are valid for the
\* target, or whenever the donor is blocked at any frame inside the gap
C10_PatternSkips ==
  (Called /\ last.strategy = "pattern")
     => \A f \in Frames :
           (~PreValid(f) /\ (WindowTarget(f) < last.mn \/ DnrBlockedInGap(f)))
              => (f \notin FilledFrames /\ resid[TgtName][f] = -1)

C10_Witness ==
  /\ last.strategy = "pattern"
  /\ ~last.raised
  /\ \E f \in Frames :
        /\ InInternalGap(f)
        /\ ~DnrBlockedInGap(f)
        /\ WindowTarget(f) < last.mn
        /\ resid[TgtName][f] = -1

\* C11 as claimed: fill_marker_gap_interp leaves an internal gap unfilled
\* when fewer than min_needed_frs target frames are valid in its window,
\* fills every frame of it with residual 0 otherwise, and returns
\* updated=True exactly when it filled a gap
C11_InterpFillsByCount ==
  (Called /\ last.strategy = "interp")
     => /\ ~last.raised
        /\ \A f \in Frames : InInternalGap(f) =>
              IF WindowTarget(f) < last.mn
              THEN f \notin FilledFrames /\ resid[TgtName][f] = -1
              ELSE f \in FilledFrames /\ resid[TgtName][f] = 0
        /\ last.updated <=> FilledFrames # {}

\* ================================================= force platform output
\* ------------------------------------------------- floating point values
\* A float is [k, n, d]: the fraction n/d in lowest terms with d > 0
\* (k = "num"), an infinity of sign n (k = "inf"), NaN (k = "nan"), or the
\* largest finite float of sign n (k = "max", made by np.nan_to_num only).
RECURSIVE Gcd(_, _)
Gcd(a, b) == IF b = 0 THEN a ELSE Gcd(b, a % b)

AbsInt(n) == IF n < 0 THEN -n ELSE n
SignInt(n) == IF n < 0 THEN -1 ELSE IF n > 0 THEN 1 ELSE 0

Num(n, d) ==
  LET g == Gcd(AbsInt(n), AbsInt(d))
      sg == IF d < 0 THEN -1 ELSE 1
  IN [k |-> "num", n |-> sg * SignInt(n) * (AbsInt(n) \div g), d |-> AbsInt(d) \div g]

F(i) == [k |-> "num", n |-> i, d |-> 1]
Zero == F(0)
NaN == [k |-> "nan", n |-> 0, d |-> 0]
Inf(sg) == [k |-> "inf", n |-> sg, d |-> 0]
Milli == Num(1, 1000)

IsNaN(x) == x.k = "nan"
IsZero(x) == x.k = "num" /\ x.n = 0

FNeg(x) == IF IsNaN(x) THEN x ELSE [x EXCEPT !.n = -x.n]
FAbs(x) == IF IsNaN(x) THEN x ELSE [x EXCEPT !.n = AbsInt(x.n)]

FAdd(x, y) ==
  IF IsNaN(x) \/ IsNaN(y) THEN NaN
  ELSE IF x.k = "inf" /\ y.k = "inf" THEN (IF x.n = y.n THEN x ELSE NaN)
  ELSE IF x.k = "inf" THEN x
  ELSE IF y.k = "inf" THEN y
  ELSE LET g == Gcd(x.d, y.d)
           l == x.d * (y.d \div g)
       IN Num(x.n * (l \div x.d) + y.n * (l \div y.d), l)

FSub(x, y) == FAdd(x, FNeg(y))

FMul(x, y) ==
  IF IsNaN(x) \/ IsNaN(y) THEN NaN
  ELSE IF x.k = "inf" \/ y.k = "inf"
       THEN (IF IsZero(x) \/ IsZero(y) THEN NaN
             ELSE Inf(SignInt(x.n) * SignInt(y.n)))
  ELSE Num(x.n * y.n, x.d * y.d)

\* IEEE division: x/inf = 0, 0/0 = NaN, x/0 = an infinity (the zeros of the
\* model are positive)
FDiv(x, y) ==
  IF IsNaN(x) \/ IsNaN(y) THEN NaN
  ELSE IF y.k = "inf" THEN (IF x.k = "inf" THEN NaN ELSE Zero)
  ELSE IF x.k = "inf" THEN Inf(x.n * (IF y.n < 0 THEN -1 ELSE 1))
  ELSE IF y.n = 0 THEN (IF x.n = 0 THEN NaN ELSE Inf(SignInt(x.n)))
  ELSE Num(x.n * y.d, x.d * y.n)

\* x <= y; false when either is NaN
FLe(x, y) ==
  IF IsNaN(x) \/ IsNaN(y) THEN FALSE
  ELSE IF x.k = "inf" THEN (x.n < 0 \/ (y.k = "inf" /\ y.n > 0))
  ELSE IF y.k = "inf" THEN y.n > 0
  ELSE x.n * y.d <= y.n * x.d

\* np.clip(x, lo, hi) = np.minimum(np.maximum(x, lo), hi); NaN stays NaN
Clip(x, lo, hi) ==
  IF IsNaN(x) THEN NaN
  ELSE IF FLe(x, lo) THEN lo
  ELSE IF FLe(hi, x) THEN hi
  ELSE x

\* the identity in place of np.nan_to_num
NanToNum_Keep(x) == x

\* np.nan_to_num(x): NaN becomes 0, an infinity the largest finite float
NanToNum(x) ==
  IF IsNaN(x) THEN Zero
  ELSE IF x.k = "inf" THEN [k |-> "max", n |-> x.n, d |-> 0]
  ELSE x

Vec3(a, b, c) == <<a, b, c>>
ZeroVec == Vec3(Zero, Zero, Zero)

\* np.cross(a, b)
Cross(a, b) ==
  Vec3(FSub(FMul(a[2], b[3]), FMul(a[3], b[2])),
       FSub(FMul(a[3], b[1]), FMul(a[1], b[3])),
       FSub(FMul(a[1], b[2]), FMul(a[2], b[1])))

VecAdd(a, b) == Vec3(FAdd(a[1], b[1]), FAdd(a[2], b[2]), FAdd(a[3], b[3]))

\* ------------------------------------------------------ the plate session
\* analog frames of the recording
NAnalog == 2
AnalogFrames == 0..(NAnalog - 1)

\* the parameters get_fp_output looks up before it reads any data
RequiredParams ==
  {"FORCE_PLATFORM:USED", "FORCE_PLATFORM:CHANNEL",
   "ANALOG:LABELS", "ANALOG:SCALE", "ANALOG:OFFSET"}

\* FORCE_PLATFORM:TYPE values of the model; 5 is not a supported type
PlateTypes == {1, 2, 3, 4, 5}

\* FORCE_PLATFORM:ORIGIN and FORCE_PLATFORM:CORNERS of plate fp_idx (0-based),
\* in mm (POINT:UNITS is not 'm'); the corners are an axis-aligned rectangle
PlateGeom(fp_idx) ==
  IF fp_idx = 0
  THEN [origin |-> <<0, 0, -40>>,
        corners |-> << <<200, 150, 0>>, <<-200, 150, 0>>,
                       <<-200, -150, 0>>, <<200, -150, 0>> >>]
  ELSE [origin |-> <<10, -20, 50>>,
        corners |-> << <<700, 150, 0>>, <<300, 150, 0>>,
                       <<300, -150, 0>>, <<700, -150, 0>> >>]

\* FORCE_PLATFORM:CAL_MATRIX of a type 4 plate (row i, column j)
CalMatrix(i, j) == IF i = j THEN 2 ELSE IF i = 3 /\ j = 1 THEN 1 ELSE 0

\* ch_val of the eight channels of a plate at one analog frame: the scaled
\* analog samples (offset removed, ANALOG:SCALE and GEN_SCALE applied)
Samples ==
  { <<0, 0, 0, 0, 0, 0, 0, 0>>,
    <<1, 0, 2, 100, -200, 50, 0, 0>>,
    <<0, 1, 1, 300, -900, 0, 1, 0>> }

\* the values the callers pass for threshold
Thresholds == {-1, 0, 1}

\* np.linalg.norm of the difference of two corners (one nonzero component)
CornerDist(a, b) ==
  AbsInt(a[1] - b[1]) + AbsInt(a[2] - b[2]) + AbsInt(a[3] - b[3])

\* point_scale: POINT:UNITS is not 'm'
PointScale == Milli

\* fp_len_x, fp_len_y
fp_len(fp_corners) ==
  [x |-> FMul(FMul(F(CornerDist(fp_corners[1], fp_corners[2])
                     + CornerDist(fp_corners[4], fp_corners[3])), PointScale),
              Num(1, 2)),
   y |-> FMul(FMul(F(CornerDist(fp_corners[1], fp_corners[4])
                     + CornerDist(fp_corners[2], fp_corners[3])), PointScale),
              Num(1, 2))]

\* an origin that keeps the x and y components for every plate type
fp_origin_Full(fp_type, origin) ==
  LET fp_org_raw == [i \in 1..3 |-> FMul(F(origin[i]), PointScale)]
      fp_z_check == IF ~FLe(fp_org_raw[3], Zero) THEN F(-1) ELSE F(1)
      neg(i) == FMul(FMul(F(-1), fp_org_raw[i]), fp_z_check)
  IN [o |-> Vec3(neg(1), neg(2), neg(3)),
      len_a |-> FAbs(fp_org_raw[1]), len_b |-> FAbs(fp_org_raw[2])]

\* the locals a plate of a supported type assigns before its channels are
\* read: o_x, o_y, o_z and (type 3) fp_len_a, fp_len_b, which the other
\* types do not use
fp_origin(fp_type, origin) ==
  LET fp_org_raw == [i \in 1..3 |-> FMul(F(origin[i]), PointScale)]
      fp_z_check == IF ~FLe(fp_org_raw[3], Zero) THEN F(-1) ELSE F(1)
      neg(i) == FMul(FMul(F(-1), fp_org_raw[i]), fp_z_check)
  IN IF fp_type = 1
     THEN [o |-> Vec3(Zero, Zero, neg(3)), len_a |-> Zero, len_b |-> Zero]
     ELSE IF fp_type \in {2, 4}
     THEN [o |-> Vec3(neg(1), neg(2), neg(3)), len_a |-> Zero, len_b |-> Zero]
     ELSE [o |-> Vec3(Zero, Zero, neg(3)),
           len_a |-> FAbs(fp_org_raw[1]), len_b |-> FAbs(fp_org_raw[2])]

\* ch_unit_scale: forces are N, moments Nmm and positions mm (ANALOG:UNITS
\* names neither 'Nm' nor 'm')
ForceScale == F(1)
MomentScale == Milli
PosScale == Milli

\* f_raw and m_raw of one analog frame of a plate of a supported type
fp_raw(fp_type, org, c) ==
  LET ch(i) == F(c[i])
      o == org.o
  IN IF fp_type = 1
     THEN LET cop_l_x_in == FMul(ch(4), PosScale)
              cop_l_y_in == FMul(ch(5), PosScale)
              t_z_in == FMul(ch(6), MomentScale)
              fx == FMul(ch(1), ForceScale)
              fy == FMul(ch(2), ForceScale)
              fz == FMul(ch(3), ForceScale)
              mx == FAdd(FMul(FSub(cop_l_y_in, o[2]), fz), FMul(o[3], fy))
              my == FSub(FMul(FNeg(o[3]), fx), FMul(FSub(cop_l_x_in, o[1]), fz))
              mz == FAdd(FSub(FMul(FSub(cop_l_x_in, o[1]), fy),
                              FMul(FSub(cop_l_y_in, o[2]), fx)), t_z_in)
          IN [f |-> Vec3(fx, fy, fz), m |-> Vec3(mx, my, mz)]
     ELSE IF fp_type = 2
     THEN [f |-> Vec3(FMul(ch(1), ForceScale), FMul(ch(2), ForceScale),
                      FMul(ch(3), ForceScale)),
           m |-> Vec3(FMul(ch(4), MomentScale), FMul(ch(5), MomentScale),
                      FMul(ch(6), MomentScale))]
     ELSE IF fp_type = 4
     THEN LET fm_calib(i) ==
                F(CalMatrix(i, 1) * c[1] + CalMatrix(i, 2) * c[2]
                  + CalMatrix(i, 3) * c[3] + CalMatrix(i, 4) * c[4]
                  + CalMatrix(i, 5) * c[5] + CalMatrix(i, 6) * c[6])
          IN [f |-> Vec3(FMul(fm_calib(1), ForceScale), FMul(fm_calib(2), ForceScale),
                         FMul(fm_calib(3), ForceScale)),
              m |-> Vec3(FMul(fm_calib(4), MomentScale), FMul(fm_calib(5), MomentScale),
                         FMul(fm_calib(6), MomentScale))]
     ELSE LET fx12 == FMul(ch(1), ForceScale)
              fx34 == FMul(ch(2), ForceScale)
              fy14 == FMul(ch(3), ForceScale)
              fy23 == FMul(ch(4), ForceScale)
              fz1 == FMul(ch(5), ForceScale)
              fz2 == FMul(ch(6), ForceScale)
              fz3 == FMul(ch(7), ForceScale)
              fz4 == FMul(ch(8), ForceScale)
              fx == FAdd(fx12, fx34)
              fy == FAdd(fy14, fy23)
              fz == FAdd(FAdd(fz1, fz2), FAdd(fz3, fz4))
              mx == FMul(org.len_b, FSub(FSub(FAdd(fz1, fz2), fz3), fz4))
              my == FMul(org.len_a, FSub(FAdd(FAdd(FNeg(fz1), fz2), fz3), fz4))
              mz == FAdd(FMul(org.len_b, FAdd(FNeg(fx12), fx34)),
                         FMul(org.len_a, FSub(fy14, fy23)))
          IN [f |-> Vec3(fx, fy, fz), m |-> Vec3(mx, my, mz)]

\* ---------------------------------------------------------- get_fp_output
\* a mask of the frames whose |Fz| is below the threshold, not equal to it
fm_skip_mask_Below(f_raw, threshold) ==
  [fr \in AnalogFrames |-> ~FLe(F(threshold), FAbs(f_raw[fr][3]))]

\* fm_skip_mask = np.abs(f_raw[:,2]) <= threshold
fm_skip_mask(f_raw, threshold) ==
  [fr \in AnalogFrames |-> FLe(FAbs(f_raw[fr][3]), F(threshold))]

\* a COP without np.clip
fp_cop_Unclipped(f, m, o, len, skip, cop_nan_to_num) ==
  LET f_z_adj == IF skip THEN Inf(1) ELSE f[3]
      x == FAdd(FDiv(FAdd(FNeg(m[2]), FMul(FNeg(o[3]), f[1])), f_z_adj), o[1])
      y == FAdd(FDiv(FAdd(m[1], FMul(FNeg(o[3]), f[2])), f_z_adj), o[2])
      cop_l_x == IF skip THEN NaN ELSE x
      cop_l_y == IF skip THEN NaN ELSE y
      cop_l_z == IF skip THEN NaN ELSE Zero
  IN IF cop_nan_to_num
     THEN Vec3(NanToNum(cop_l_x), NanToNum(cop_l_y), NanToNum(cop_l_z))
     ELSE Vec3(cop_l_x, cop_l_y, cop_l_z)

\* cop_l_x, cop_l_y, cop_l_z of one frame from the thresholded f and m
fp_cop(f, m, o, len, skip, cop_nan_to_num) ==
  LET f_z_adj == IF skip THEN Inf(1) ELSE f[3]
      half == Num(1, 2)
      x == Clip(FAdd(FDiv(FAdd(FNeg(m[2]), FMul(FNeg(o[3]), f[1])), f_z_adj), o[1]),
                FMul(FNeg(len.x), half), FMul(len.x, half))
      y == Clip(FAdd(FDiv(FAdd(m[1], FMul(FNeg(o[3]), f[2])), f_z_adj), o[2]),
                FMul(FNeg(len.y), half), FMul(len.y, half))
      cop_l_x == IF skip THEN NaN ELSE x
      cop_l_y == IF skip THEN NaN ELSE y
      cop_l_z == IF skip THEN NaN ELSE Zero
  IN IF cop_nan_to_num
     THEN Vec3(NanToNum(cop_l_x), NanToNum(cop_l_y), NanToNum(cop_l_z))
     ELSE Vec3(cop_l_x, cop_l_y, cop_l_z)

\* fp_data of one plate from the locals loc (o_x.., f_raw, m_raw) that are
\* bound when the plate's channels have been read
fp_data(loc, fp_corners, threshold, cop_nan_to_num) ==
  LET skip == fm_skip_mask(loc.f_raw, threshold)
      f_sensor_local == [fr \in AnalogFrames |->
                           IF skip[fr] THEN ZeroVec ELSE loc.f_raw[fr]]
      m_sensor_local == [fr \in AnalogFrames |->
                           IF skip[fr] THEN ZeroVec ELSE loc.m_raw[fr]]
      len == fp_len(fp_corners)
  IN [F_SURF_LOCAL |-> f_sensor_local,
      M_SURF_LOCAL |-> [fr \in AnalogFrames |->
                          VecAdd(Cross(loc.org.o, f_sensor_local[fr]),
                                 m_sensor_local[fr])],
      COP_SURF_LOCAL |-> [fr \in AnalogFrames |->
                            fp_cop(f_sensor_local[fr], m_sensor_local[fr],
                                   loc.org.o, len, skip[fr], cop_nan_to_num)]]

\* the locals before the first plate: nothing is bound
NoLocals == [bound |-> FALSE, org |-> <<>>, f_raw |-> <<>>, m_raw |-> <<>>]

\* the types the if / elif chains have a branch for
fp_supported(fp_type) == fp_type \in {1, 2, 3, 4}

\* channel reads that also store the scaled samples in the session
fp_channel_calls_Store(fp_idx) ==
  <<"GetParameterValue", "GetParameterValue", "GetParameterValue",
    "GetAnalogDataEx", "SetAnalogDataEx">>

\* the COM calls that read a plate's channels (label, scale, offset, data)
fp_channel_calls(fp_idx) ==
  <<"GetParameterValue", "GetParameterValue", "GetParameterValue",
    "GetAnalogDataEx">>

\* the COM calls made before the loop over the plates, when params_seen
\* parameters were looked up (FORCE_PLATFORM:USED is read once it is found)
fp_lookup_calls(params_seen) ==
  <<"GetVideoFrame", "GetVideoFrame", "GetParameterIndex">>
  \o (IF params_seen >= 2
      THEN <<"GetParameterValue">>
           \o [i \in 1..(params_seen - 1) |-> "GetParameterIndex"]
      ELSE <<>>)

\* for fp_idx in range(n_fp_used): a plate of a type without a branch keeps
\* the locals of the plate before it, and fails on the first unbound local
\* orgs keeps, for every plate, the origin locals its iteration worked with
RECURSIVE fp_loop(_, _, _, _, _, _, _)
fp_loop(fp_idx, loc, fp_output, orgs, calls, threshold, cop_nan_to_num) ==
  IF fp_idx >= Len(plates.types)
  THEN [kind |-> "output", out |-> fp_output, calls |-> calls, orgs |-> orgs]
  ELSE LET fp_type == plates.types[fp_idx + 1]
           calls2 == calls \o fp_channel_calls(fp_idx)
       IN IF ~fp_supported(fp_type) /\ ~loc.bound
          THEN [kind |-> "raised", out |-> <<>>, calls |-> calls2, orgs |-> orgs]
          ELSE
       LET org == IF fp_supported(fp_type)
                  THEN fp_origin(fp_type, PlateGeom(fp_idx).origin)
                  ELSE loc.org
           raw == [fr \in AnalogFrames |->
                     fp_raw(fp_type, org, plates.data[fp_idx + 1][fr])]
           loc2 == IF fp_supported(fp_type)
                   THEN [bound |-> TRUE, org |-> org,
                         f_raw |-> [fr \in AnalogFrames |-> raw[fr].f],
                         m_raw |-> [fr \in AnalogFrames |-> raw[fr].m]]
                   ELSE loc
       IN \* evaluated once: the locals are a value, not an expression
          LET step(l) ==
                fp_loop(fp_idx + 1, l,
                        Append(fp_output,
                               fp_data(l, PlateGeom(fp_idx).corners,
                                       threshold, cop_nan_to_num)),
                        Append(orgs, l.org),
                        calls2, threshold, cop_nan_to_num)
          IN CHOOSE r \in {step(l) : l \in {loc2}} : TRUE

\* an exception in place of the early return
FpNone_Raises(calls) == [kind |-> "raised", out |-> <<>>, calls |-> calls, orgs |-> <<>>]

\* return None, after the warning is logged
FpNone(calls) == [kind |-> "None", out |-> <<>>, calls |-> calls, orgs |-> <<>>]

get_fp_output(threshold, cop_nan_to_num) ==
  IF "FORCE_PLATFORM:USED" \notin plates.params THEN FpNone(fp_lookup_calls(1))
  ELSE IF Len(plates.types) < 1
       THEN FpNone(fp_lookup_calls(1) \o <<"GetParameterValue">>)
  ELSE IF "FORCE_PLATFORM:CHANNEL" \notin plates.params THEN FpNone(fp_lookup_calls(2))
  ELSE IF "ANALOG:LABELS" \notin plates.params THEN FpNone(fp_lookup_calls(3))
  ELSE IF "ANALOG:SCALE" \notin plates.params THEN FpNone(fp_lookup_calls(4))
  ELSE IF "ANALOG:OFFSET" \notin plates.params THEN FpNone(fp_lookup_calls(5))
  ELSE fp_loop(0, NoLocals, <<>>, <<>>, fp_lookup_calls(7), threshold, cop_nan_to_num)

\* ------------------------------------------------- force platform actions
GetFpOutput ==
  /\ fpout.kind = "none"
  /\ \E threshold \in Thresholds, cop_nan_to_num \in BOOLEAN :
     \E r \in {get_fp_output(threshold, cop_nan_to_num)} :
        fpout' = [kind |-> r.kind, out |-> r.out, calls |-> r.calls,
                  orgs |-> r.orgs,
                  threshold |-> threshold, cop_nan_to_num |-> cop_nan_to_num,
                  pre |-> plates]
  /\ UNCHANGED <<resid, pos, last, plates>>

\* the caller takes the dictionary, None or the exception
FpReturn ==
  /\ fpout.kind # "none"
  /\ fpout' = NoFpCall
  /\ UNCHANGED <<resid, pos, last, plates>>

\* sessions with n plates: every type; the first plate has every sample at
\* every frame, a second plate one sample at all its frames
PlateSessions(n, params) ==
  {[params |-> params, types |-> t, data |-> d] :
     t \in [1..n -> PlateTypes],
     d \in {d \in [1..n -> [AnalogFrames -> Samples]] :
              \A i \in 2..n : \A fr \in AnalogFrames : d[i][fr] = d[i][0]}}

\* A recording with up to two force plates and all required parameters, or
\* with one plate and one required parameter missing.
InitFp ==
  /\ resid = [m \in Markers |-> [f \in Frames |-> Measured]]
  /\ pos = [m \in Markers |-> [f \in Frames |-> FilePos(f)]]
  /\ last = NoCall
  /\ fpout = NoFpCall
  /\ plates \in PlateSessions(2, RequiredParams)
                \cup PlateSessions(1, RequiredParams)
                \cup PlateSessions(0, RequiredParams)
                \cup UNION {PlateSessions(1, RequiredParams \ {p}) : p \in RequiredParams}

NextFp ==
  \/ GetFpOutput
  \/ FpReturn

SpecFp == InitFp /\ [][NextFp]_vars

\* ------------------------------------------ statements on get_fp_output
FpCalled == fpout.kind # "none"
FpOutput == fpout.kind = "output"

\* the plates (1-based) of the session the call read, and those among them
\* whose output the call returned and whose type is one of 1..4
FpPlates == DOMAIN fpout.pre.types
FpSupported(p) == fpout.pre.types[p] \in {1, 2, 3, 4}
FpReturned == {p \in FpPlates : FpOutput /\ p \in DOMAIN fpout.out /\ FpSupported(p)}

\* the forces and moments of plate p at frame fr before the threshold
FpOrg(p) == fp_origin(fpout.pre.types[p], PlateGeom(p - 1).origin)
FpRaw(p, fr) == fp_raw(fpout.pre.types[p], FpOrg(p), fpout.pre.data[p][fr])
FpMasked(p, fr) == FLe(FAbs(FpRaw(p, fr).f[3]), F(fpout.threshold))
FpHalfLen(p) ==
  LET len == fp_len(PlateGeom(p - 1).corners)
  IN [x |-> FMul(len.x, Num(1, 2)), y |-> FMul(len.y, Num(1, 2))]

\* C12: for every plate and analog frame, |Fz| <= threshold (Fz before the
\* zeroing) makes the three local force and the three local moment
\* components exactly 0, and |Fz| > threshold leaves them as computed
C12_ThresholdZeroing ==
  \A p \in FpReturned : \A fr \in AnalogFrames :
     IF FpMasked(p, fr)
     THEN /\ fpout.out[p].F_SURF_LOCAL[fr] = ZeroVec
          /\ fpout.out[p].M_SURF_LOCAL[fr] = ZeroVec
     ELSE /\ fpout.out[p].F_SURF_LOCAL[fr] = FpRaw(p, fr).f
          /\ fpout.out[p].M_SURF_LOCAL[fr]
                = VecAdd(Cross(FpOrg(p).o, FpRaw(p, fr).f), FpRaw(p, fr).m)

C12_Witness ==
  /\ FpOutput
  /\ fpout.threshold = 1
  /\ \E p \in FpReturned :
        /\ fpout.pre.types[p] = 2
        /\ FpMasked(p, 0) /\ FpRaw(p, 0).f[3] = F(1)
        /\ ~FpMasked(p, 1)
        /\ fpout.out[p].F_SURF_LOCAL[0] = ZeroVec
        /\ fpout.out[p].F_SURF_LOCAL[1] # ZeroVec

\* C13: with cop_nan_to_num=True the local COP of every masked frame is
\* exactly (0, 0, 0); with cop_nan_to_num=False its components are NaN
C13_MaskedCop ==
  \A p \in FpReturned : \A fr \in AnalogFrames :
     FpMasked(p, fr) =>
        IF fpout.cop_nan_to_num
        THEN fpout.out[p].COP_SURF_LOCAL[fr] = ZeroVec
        ELSE \A i \in 1..3 : IsNaN(fpout.out[p].COP_SURF_LOCAL[fr][i])

C13_Witness ==
  /\ FpOutput
  /\ fpout.cop_nan_to_num
  /\ fpout.threshold = 0
  /\ \E p \in FpReturned :
        /\ IsZero(FpRaw(p, 0).f[3])
        /\ fpout.out[p].COP_SURF_LOCAL[0] = ZeroVec

\* C14 as claimed: at every frame that is not masked the local COP has
\* |cop_x| <= len_x/2 and |cop_y| <= len_y/2, and with threshold >= 0 no
\* such frame has Fz = 0
C14_Original ==
  \A p \in FpReturned : \A fr \in AnalogFrames :
     ~FpMasked(p, fr) =>
        /\ FLe(FAbs(fpout.out[p].COP_SURF_LOCAL[fr][1]), FpHalfLen(p).x)
        /\ FLe(FAbs(fpout.out[p].COP_SURF_LOCAL[fr][2]), FpHalfLen(p).y)
        /\ fpout.threshold >= 0 => ~IsZero(FpRaw(p, fr).f[3])

\* C14: with threshold >= 0, no frame that is not masked has Fz = 0 and its
\* local COP has |cop_x| <= len_x/2 and |cop_y| <= len_y/2; with a negative
\* threshold no frame is masked and a COP component is within these bounds
\* or, at a frame with Fz = 0, NaN (0 with cop_nan_to_num=True)
C14_CopWithinPlate ==
  \A p \in FpReturned : \A fr \in AnalogFrames :
     LET cop == fpout.out[p].COP_SURF_LOCAL[fr]
         inside == /\ FLe(FAbs(cop[1]), FpHalfLen(p).x)
                   /\ FLe(FAbs(cop[2]), FpHalfLen(p).y)
     IN ~FpMasked(p, fr) =>
           IF fpout.threshold >= 0
           THEN ~IsZero(FpRaw(p, fr).f[3]) /\ inside
           ELSE /\ \A i \in 1..2 :
                      \/ FLe(FAbs(cop[i]), IF i = 1 THEN FpHalfLen(p).x ELSE FpHalfLen(p).y)
                      \/ IsNaN(cop[i]) /\ IsZero(FpRaw(p, fr).f[3])
                /\ fpout.cop_nan_to_num => inside

C14_Witness ==
  /\ FpOutput
  /\ fpout.threshold = 0
  /\ \E p \in FpReturned :
        /\ ~FpMasked(p, 0)
        /\ fpout.out[p].COP_SURF_LOCAL[0][1] = FpHalfLen(p).x
        /\ ~FpMasked(p, 1)
        /\ ~FLe(FpHalfLen(p).x, FAbs(fpout.out[p].COP_SURF_LOCAL[1][1]))
        /\ ~IsZero(fpout.out[p].COP_SURF_LOCAL[1][1])

\* C15 as claimed: a used plate of a type outside 1..4, at any position,
\* makes get_fp_output fail, and no output is returned for any plate
C15_UnsupportedTypeFails ==
  (FpCalled /\ fpout.pre.params = RequiredParams
            /\ \E p \in FpPlates : ~FpSupported(p))
     => (fpout.kind = "raised" /\ fpout.out = <<>>)

\* C16 as claimed: a missing required parameter ends get_fp_output with an
\* error, not with a returned value
C16_Original ==
  (FpCalled /\ fpout.pre.params # RequiredParams) => fpout.kind = "raised"

\* C16: when one of FORCE_PLATFORM:USED, FORCE_PLATFORM:CHANNEL,
\* ANALOG:LABELS, ANALOG:SCALE, ANALOG:OFFSET is absent get_fp_output
\* returns None; it raises no error and returns no plate output
C16_MissingParamReturnsNone ==
  (FpCalled /\ fpout.pre.params # RequiredParams)
     => (fpout.kind = "None" /\ fpout.out = <<>>)

C16_Witness ==
  /\ fpout.kind = "None"
  /\ fpout.pre.params = RequiredParams \ {"ANALOG:OFFSET"}
  /\ Len(fpout.pre.types) = 1

\* the COM methods that read the session
SessionReads ==
  {"GetVideoFrame", "GetParameterIndex", "GetParameterValue",
   "GetParameterLength", "GetAnalogDataEx"}

PartialPos(new, k) == [by |-> new.by, fr0 |-> new.fr0, fr1 |-> new.fr1, axes |-> k]
IsPartial(p) == "axes" \in DOMAIN p

\* the positions of the session after the first k SetPointDataEx calls of
\* set_marker_pos (one call per axis) went through
set_marker_pos_upto(mkr_name, mkr_coords, k) ==
  IF k = 0 THEN pos
  ELSE IF k >= 3 THEN set_marker_pos(mkr_name, mkr_coords)
  ELSE [pos EXCEPT ![mkr_name] =
          [f \in Frames |->
             LET old == pos[mkr_name][f]
             IN IF mkr_coords[f] = old THEN old
                ELSE IF /\ IsPartial(old) /\ old.axes >= k
                        /\ old = PartialPos(mkr_coords[f], old.axes)
                     THEN old
                     ELSE PartialPos(mkr_coords[f], k)]]

\* the residuals of the session after the first k calls of set_marker_resid
\* went through: the first call writes the whole array, the later ones write
\* the value 1 again at the frames that hold it
set_marker_resid_upto(mkr_name, mkr_resid, k) ==
  IF k = 0 THEN resid ELSE set_marker_resid(mkr_name, mkr_resid)

\* the end of a strategy when the COM call number k + 1 of its write-back
\* fails (k calls went through); k = number of calls: no call fails
FinishCom(strategy, tgt_mkr_name, so, mn, out) ==
  IF ~out.updated THEN Finish(strategy, tgt_mkr_name, so, mn, out)
  ELSE
    LET w == PosWrites(tgt_mkr_name) \o ResidWrites(tgt_mkr_name, out.res)
    IN \E k \in 0..Len(w) :
         /\ pos' = set_marker_pos_upto(tgt_mkr_name, out.coords, k)
         /\ resid' = set_marker_resid_upto(tgt_mkr_name, out.res,
                                           IF k > 3 THEN k - 3 ELSE 0)
         /\ last' = [strategy |-> strategy, so |-> so, mn |-> mn,
                     raised |-> k < Len(w),
                     updated |-> k = Len(w),
                     n |-> IF k = Len(w) THEN out.n ELSE 0,
                     pre_resid |-> resid[tgt_mkr_name],
                     pre_pos |-> pos[tgt_mkr_name],
                     writes |-> SubSeq(w, 1, k),
                     log |-> IF k = Len(w) THEN out.log ELSE "error"]
         /\ UNCHANGED <<plates, fpout>>

RecoverMarkerRelCom ==
  /\ Idle
  /\ \E out \in {recover_marker_rel(TgtName, ClNames)} :
     FinishCom("rel", TgtName, 0, 0, out)

RecoverMarkerRbtCom ==
  /\ Idle
  /\ \E out \in {recover_marker_rbt(TgtName, ClNames)} :
     FinishCom("rbt", TgtName, 0, 0, out)

FillMarkerGapRbtCom ==
  /\ Idle
  /\ \E out \in {fill_marker_gap_rbt(TgtName, ClNames)} :
     FinishCom("gaprbt", TgtName, 0, 0, out)

FillMarkerGapPatternCom ==
  /\ Idle
  /\ \E so \in SpanOffsets, mn \in MinNeededFrs :
     \E out \in {fill_marker_gap_pattern(TgtName, DnrName, so, mn)} :
        FinishCom("pattern", TgtName, so, mn, out)

FillMarkerGapInterpCom ==
  /\ Idle
  /\ \E so \in SpanOffsets, mn \in MinNeededFrs :
     \E out \in {fill_marker_gap_interp(TgtName, SplineK, so, mn)} :
        FinishCom("interp", TgtName, so, mn, out)

\* a recording whose cluster markers are measured at every frame
InitCom ==
  /\ \E t \in ResidArrays(NFrames) :
        resid = [m \in Markers |->
                   IF m = "TGT" THEN t ELSE [f \in Frames |-> Measured]]
  /\ pos = [m \in Markers |-> [f \in Frames |-> FilePos(f)]]
  /\ last = NoCall
  /\ plates = NoPlates
  /\ fpout = NoFpCall

NextCom ==
  \/ RecoverMarkerRelCom
  \/ RecoverMarkerRbtCom
  \/ FillMarkerGapRbtCom
  \/ FillMarkerGapPatternCom
  \/ FillMarkerGapInterpCom
  \/ Return

SpecCom == InitCom /\ [][NextCom]_vars

\* the target's data are as before the call
TargetAsBefore ==
  /\ resid[TgtName] = last.pre_resid
  /\ pos[TgtName] = last.pre_pos

\* the target's data are a complete fill result: every frame holds whole
\* coordinates, and the frames with new coordinates are the frames whose
\* residual went from blocked to recovered
TargetAsFilled ==
  \A f \in Frames :
     /\ ~IsPartial(pos[TgtName][f])
     /\ IF pos[TgtName][f] # last.pre_pos[f]
        THEN last.pre_resid[f] = Blocked /\ resid[TgtName][f] = Recovered
        ELSE resid[TgtName][f] = last.pre_resid[f]

\* C18 as claimed: when a fill call ends, by a return or by an error raised
\* during write-back, the target's positions and residuals are all as
\* before the call or all as after the fill, never a mixture
C18_WriteBackAtomic ==
  Called => (TargetAsBefore \/ TargetAsFilled)

\* ========================================================= absent markers
\* A recording in which one of the four markers does not exist
\* (get_marker_data returns None for it), or all exist; the markers that
\* exist are measured at every frame, except the target, which is blocked
\* on any set of frames.
InitAbsent ==
  /\ \E present \in {Markers \ {m} : m \in Markers} \cup {Markers},
        t \in ResidArrays(NFrames) :
        /\ resid = [m \in present |->
                      IF m = "TGT" THEN t ELSE [f \in Frames |-> Measured]]
        /\ pos = [m \in present |-> [f \in Frames |-> FilePos(f)]]
  /\ last = NoCall
  /\ plates = NoPlates
  /\ fpout = NoFpCall

SpecAbsent == InitAbsent /\ [][Next]_vars

\* a step that is one call of a fill strategy
FillStep == Idle /\ last'.strategy # "none"

\* the supporting markers a strategy is called with
NamedSupport(strategy) ==
  IF strategy \in {"rel", "rbt", "gaprbt"} THEN {ClNames[i] : i \in DOMAIN ClNames}
  ELSE IF strategy = "pattern" THEN {DnrName}
  ELSE {}

SupportAbsent == \E m \in NamedSupport(last'.strategy) : ~MarkerPresent(m)

\* the call raised and made no session write
RaisedNoWrite ==
  /\ last'.raised
  /\ last'.writes = <<>>
  /\ resid' = resid
  /\ pos' = pos

\* C19 as claimed: a fill call raises and writes nothing whenever the target
\* or a named cluster or donor marker is absent, whatever the validity of
\* the target's frames
C19_Original ==
  [][(FillStep /\ (~MarkerPresent(TgtName) \/ SupportAbsent)) => RaisedNoWrite]_vars

\* C19: a fill call raises and writes nothing whenever the target is absent,
\* or a named cluster or donor marker is absent and the target has at least
\* one valid and at least one blocked frame; when a supporting marker is
\* absent and the target has no valid frame or no blocked frame, the call
\* returns (False, n) without an error and writes nothing
C19_AbsentMarkerRaises ==
  [][FillStep =>
       IF ~MarkerPresent(TgtName) THEN RaisedNoWrite
       ELSE LET n == CountNonzero(ValidMask(resid[TgtName]))
            IN SupportAbsent =>
                 IF 0 < n /\ n < NFrames THEN RaisedNoWrite
                 ELSE /\ ~last'.raised /\ ~last'.updated /\ last'.n = n
                      /\ last'.writes = <<>>
                      /\ resid' = resid /\ pos' = pos]_vars

C19_Witness ==
  /\ last.strategy = "gaprbt"
  /\ last.raised
  /\ last.writes = <<>>
  /\ MarkerPresent(TgtName)
  /\ ~MarkerPresent("CL2")
  /\ 0 < PreValidCount /\ PreValidCount < NFrames

\* =========================================== set_marker_pos / set_marker_resid
\* The two setters called by a user over the whole frame range
\* (start_frame = end_frame = None, so n_frs = NFrames) with an array of a
\* given shape.  The coordinates handed in are new data (none of them is
\* the scaled value 1, for which set_marker_pos repeats the write frame by
\* frame); the residuals handed in are all measured or all blocked.
UserPos(f) == [by |-> "user", fr0 |-> f, fr1 |-> f]

\* mkr_coords.shape / mkr_resid.shape of the arrays the callers pass
Shapes ==
  {<<n>> : n \in {NFrames - 1, NFrames}}
  \cup {<<n, c>> : n \in {NFrames - 1, NFrames}, c \in 1..4}
  \cup {<<NFrames, 3, 1>>}

\* set_marker_pos: raised, and the number of SetPointDataEx calls made.
\* ndim and shape[0] are checked; the column count is not: the axis loop
\* indexes columns 0, 1, 2 and fails with IndexError at the first one that
\* does not exist, after the writes of the columns before it
set_marker_pos_call(shape) ==
  IF Len(shape) # 2 \/ shape[1] # NFrames THEN [raised |-> TRUE, k |-> 0]
  ELSE IF shape[2] < 3 THEN [raised |-> TRUE, k |-> shape[2]]
  ELSE [raised |-> FALSE, k |-> 3]

\* set_marker_resid: ndim and shape[0] are checked before any write
set_marker_resid_call(shape) ==
  IF Len(shape) # 1 \/ shape[1] # NFrames THEN [raised |-> TRUE, k |-> 0]
  ELSE [raised |-> FALSE, k |-> 1]

SetCall(fn, mkr_name, shape, raised, writes) ==
  [strategy |-> fn, so |-> 0, mn |-> 0, raised |-> raised,
   updated |-> FALSE, n |-> 0,
   pre_resid |-> resid[mkr_name], pre_pos |-> pos[mkr_name],
   writes |-> writes, log |-> IF raised THEN "error" ELSE "",
   mkr |-> mkr_name, shape |-> shape]

SetMarkerPos ==
  /\ Idle
  /\ \E mkr_name \in {TgtName, DnrName}, shape \in Shapes :
       LET r == set_marker_pos_call(shape)
       IN /\ pos' = set_marker_pos_upto(mkr_name, [f \in Frames |-> UserPos(f)], r.k)
          /\ last' = SetCall("set_marker_pos", mkr_name, shape, r.raised,
                             SubSeq(PosWrites(mkr_name), 1, r.k))
  /\ UNCHANGED <<resid, plates, fpout>>

SetMarkerResid ==
  /\ Idle
  /\ \E mkr_name \in {TgtName, DnrName}, shape \in Shapes,
        v \in {Measured, Blocked} :
       LET r == set_marker_resid_call(shape)
           mkr_resid == [f \in Frames |-> v]
       IN /\ resid' = set_marker_resid_upto(mkr_name, mkr_resid, r.k)
          /\ last' = SetCall("set_marker_resid", mkr_name, shape, r.raised,
                             IF r.k = 0 THEN <<>> ELSE ResidWrites(mkr_name, mkr_resid))
  /\ UNCHANGED <<pos, plates, fpout>>

\* a recording whose markers are measured at every frame
InitSet ==
  /\ resid = [m \in Markers |-> [f \in Frames |-> Measured]]
  /\ pos = [m \in Markers |-> [f \in Frames |-> FilePos(f)]]
  /\ last = NoCall
  /\ plates = NoPlates
  /\ fpout = NoFpCall

NextSet ==
  \/ SetMarkerPos
  \/ SetMarkerResid
  \/ Return

SpecSet == InitSet /\ [][NextSet]_vars

\* the shape is not the one the setter expects: (NFrames, 3) for positions,
\* (NFrames,) for residuals
ShapeMismatch ==
  IF last.strategy = "set_marker_pos"
  THEN last.shape # <<NFrames, 3>>
  ELSE last.shape # <<NFrames>>

\* C20 as claimed: a setter called with an array whose shape does not match
\* the frame count or the axis count raises and leaves the session as it
\* was
C20_ShapeMismatchRaises ==
  (last.strategy \in {"set_marker_pos", "set_marker_resid"} /\ ShapeMismatch)
     => /\ last.raised
        /\ last.writes = <<>>
        /\ pos[last.mkr] = last.pre_pos
        /\ resid[last.mkr] = last.pre_resid

\* ============================================================ log messages
\* the messages that state why a call was skipped
SkipReasons ==
  {NoValidTarget, AllTargetValid, NoCommonValid, ClusterNotHelpful,
   NoValidDonor, NoCommonDonor}

\* C21 as claimed: every fill call that returns updated=False logs a message
\* that states the reason of the skip, also when the call went through the
\* gaps and filled none
C21_SkipStatesReason ==
  (Called /\ last.strategy \in {"rel", "rbt", "gaprbt", "pattern", "interp"}
          /\ ~last.raised /\ ~last.updated)
     => last.log \in SkipReasons

\* ============================================================ plate origin
\* the origin of a plate of type t: x, y and z for the types in full, z
\* alone for the others; each component is the negated raw component times
\* z_check, and the half-lengths are |origin_x| and |origin_y|
OriginByType(t, origin, full) ==
  LET raw == [i \in 1..3 |-> FMul(F(origin[i]), Milli)]
      z_check == IF raw[3].n > 0 THEN F(-1) ELSE F(1)
      o(i) == FNeg(FMul(raw[i], z_check))
  IN [o |-> IF t \in full THEN Vec3(o(1), o(2), o(3)) ELSE Vec3(Zero, Zero, o(3)),
      len_a |-> IF t = 3 THEN FAbs(raw[1]) ELSE Zero,
      len_b |-> IF t = 3 THEN FAbs(raw[2]) ELSE Zero]

\* the origin locals of every returned plate are the ones of the origin
\* rule with x and y kept for the types in full
OriginRule(full) ==
  \A p \in FpReturned :
     LET rule == OriginByType(fpout.pre.types[p], PlateGeom(p - 1).origin, full)
     IN /\ fpout.orgs[p].o = rule.o
        /\ fpout.pre.types[p] = 3
              => /\ fpout.orgs[p].len_a = rule.len_a
                 /\ fpout.orgs[p].len_b = rule.len_b

\* C22 as claimed: types 1, 2 and 4 use the x, y and z components of the
\* origin, type 3 uses z alone and |origin_x|, |origin_y| as half-lengths
C22_Original == OriginRule({1, 2, 4})

\* C22: types 2 and 4 use the x, y and z components of the origin, each the
\* negated raw component times z_check; types 1 and 3 use zero x and y
\* offsets and the z component, and type 3 takes |origin_x|, |origin_y| as
\* its half-lengths
C22_OriginByType == OriginRule({2, 4})

C22_Witness ==
  /\ FpOutput
  /\ Len(fpout.pre.types) = 2
  /\ fpout.pre.types[1] = 3
  /\ fpout.pre.types[2] = 1
  /\ 2 \in FpReturned
  /\ fpout.orgs[2].o = Vec3(Zero, Zero, Num(1, 20))
  /\ fpout.orgs[1].o = Vec3(Zero, Zero, Num(1, 25))

\* ==================================================== write-back call log
\* set_marker_pos repeats, after its three array writes, the write of every
\* coordinate whose unscaled value equals 1, frame by frame; the position
\* tokens carry no values, so the set of such coordinates (axis, frame) is
\* an input of the call.  Residuals take the values -1, 0, 1 and 2 here: a
\* measured frame may or may not have the residual 1.
Measured2 == 2

\* the (axis, frame) pairs whose unscaled coordinate is 1
CoordOnes ==
  { <<>>,
    << [ch |-> 0, fr |-> 0] >>,
    << [ch |-> 1, fr |-> 0], [ch |-> 2, fr |-> NFrames - 1] >> }

\* for i in range(3): for idx, val in enumerate(...): if val == 1: SetPointData
PosOnesWrites(name, ones) ==
  [i \in 1..Len(ones) |->
     [call |-> "SetPointData", mkr |-> name, ch |-> ones[i].ch, fr |-> ones[i].fr]]

\* the end of a strategy, with the whole call log of the two setters
FinishW(strategy, tgt_mkr_name, so, mn, out) ==
  IF ~out.updated THEN Finish(strategy, tgt_mkr_name, so, mn, out)
  ELSE \E ones \in CoordOnes :
         /\ pos' = set_marker_pos(tgt_mkr_name, out.coords)
         /\ resid' = set_marker_resid(tgt_mkr_name, out.res)
         /\ last' = [strategy |-> strategy, so |-> so, mn |-> mn,
                     raised |-> out.raised, updated |-> out.updated, n |-> out.n,
                     pre_resid |-> resid[tgt_mkr_name],
                     pre_pos |-> pos[tgt_mkr_name],
                     writes |-> PosWrites(tgt_mkr_name)
                                \o PosOnesWrites(tgt_mkr_name, ones)
                                \o ResidWrites(tgt_mkr_name, out.res),
                     log |-> out.log]
         /\ UNCHANGED <<plates, fpout>>

RecoverMarkerRelW ==
  /\ Idle
  /\ \E out \in {recover_marker_rel(TgtName, ClNames)} :
     FinishW("rel", TgtName, 0, 0, out)

RecoverMarkerRbtW ==
  /\ Idle
  /\ \E out \in {recover_marker_rbt(TgtName, ClNames)} :
     FinishW("rbt", TgtName, 0, 0, out)

FillMarkerGapRbtW ==
  /\ Idle
  /\ \E out \in {fill_marker_gap_rbt(TgtName, ClNames)} :
     FinishW("gaprbt", TgtName, 0, 0, out)

FillMarkerGapPatternW ==
  /\ Idle
  /\ \E so \in SpanOffsets, mn \in MinNeededFrs :
     \E out \in {fill_marker_gap_pattern(TgtName, DnrName, so, mn)} :
        FinishW("pattern", TgtName, so, mn, out)

FillMarkerGapInterpW ==
  /\ Idle
  /\ \E so \in SpanOffsets, mn \in MinNeededFrs :
     \E out \in {fill_marker_gap_interp(TgtName, SplineK, so, mn)} :
        FinishW("interp", TgtName, so, mn, out)

\* a recording whose cluster markers are measured at every frame and whose
\* target is, at each frame, blocked or measured with residual 1 or 2
InitW ==
  /\ \E t \in [Frames -> {Blocked, Measured, Measured2}] :
        resid = [m \in Markers |->
                   IF m = "TGT" THEN t ELSE [f \in Frames |-> Measured]]
  /\ pos = [m \in Markers |-> [f \in Frames |-> FilePos(f)]]
  /\ last = NoCall
  /\ plates = NoPlates
  /\ fpout = NoFpCall

NextW ==
  \/ RecoverMarkerRelW
  \/ RecoverMarkerRbtW
  \/ FillMarkerGapRbtW
  \/ FillMarkerGapPatternW
  \/ FillMarkerGapInterpW
  \/ Return

SpecW == InitW /\ [][NextW]_vars

\* the array writes of a call, in the order they were made
ArrayWrites == SelectSeq(last.writes, LAMBDA w : w.call = "SetPointDataEx")

\* one array write per axis, then one for the residuals
FourArrayWrites ==
  << [call |-> "SetPointDataEx", mkr |-> TgtName, ch |-> 0, fr |-> 0],
     [call |-> "SetPointDataEx", mkr |-> TgtName, ch |-> 1, fr |-> 0],
     [call |-> "SetPointDataEx", mkr |-> TgtName, ch |-> 2, fr |-> 0],
     [call |-> "SetPointDataEx", mkr |-> TgtName, ch |-> 3, fr |-> 0] >>

\* the position in the log of the array write of channel ch
ArrayWriteAt(ch) ==
  CHOOSE i \in DOMAIN last.writes :
     last.writes[i].call = "SetPointDataEx" /\ last.writes[i].ch = ch

\* C23 as claimed: a call that returns updated=True makes exactly four
\* session writes, one per axis and then one for the residuals; a call that
\* returns updated=False makes none
C23_Original ==
  (Called /\ ~last.raised) =>
     IF last.updated THEN last.writes = FourArrayWrites
     ELSE last.writes = <<>>

\* C23: a call that returns updated=True makes exactly four array writes
\* (SetPointDataEx), one per axis in the order 0, 1, 2 and then one for the
\* residuals; every other write is a single-frame write (SetPointData) of
\* the value 1: of a coordinate, after the three axis writes and before the
\* residual write, or of a residual, after the residual write, and the
\* residual ones are made for exactly the frames whose residual is 1.  A
\* call that returns updated=False makes no write.
C23_WriteSequence ==
  (Called /\ ~last.raised) =>
     IF last.updated
     THEN /\ ArrayWrites = FourArrayWrites
          /\ \A i \in DOMAIN last.writes :
                LET w == last.writes[i]
                IN w.call = "SetPointData" =>
                      IF w.ch < 3
                      THEN ArrayWriteAt(2) < i /\ i < ArrayWriteAt(3)
                      ELSE ArrayWriteAt(3) < i /\ resid[TgtName][w.fr] = 1
          /\ \A f \in Frames :
                resid[TgtName][f] = 1 =>
                   \E i \in DOMAIN last.writes :
                      last.writes[i] = [call |-> "SetPointData", mkr |-> TgtName,
                                        ch |-> 3, fr |-> f]
     ELSE last.writes = <<>>

C23_Witness ==
  /\ Called /\ last.updated
  /\ Len(last.writes) = 7
  /\ \E i \in DOMAIN last.writes :
        last.writes[i].call = "SetPointData" /\ last.writes[i].ch = 1
  /\ \E i \in DOMAIN last.writes :
        last.writes[i].call = "SetPointData" /\ last.writes[i].ch = 3
  /\ \E f \in Frames : resid[TgtName][f] = Measured2

\* ================================================= recovery by the cluster
\* the frames valid for the target before the call and for every cluster
\* marker
JointValid == {f \in Frames : PreValid(f) /\ ClValid(f)}
JointBefore(f) == {j \in JointValid : j < f}
JointAfter(f) == {j \in JointValid : j > f}
MaxOf(S) == CHOOSE m \in S : \A x \in S : x <= m
MinOf(S) == CHOOSE m \in S : \A x \in S : m <= x

\* what a recovery by strategy 'by' puts at frame f: between two jointly
\* valid frames the blend of the nearest one on each side, with the weights
\* b/(a+b) for fr0 and a/(a+b) for fr1 (a = f - fr0, b = fr1 - f); before
\* the first or after the last one, that frame alone
RecoveredPos(by, f) ==
  IF JointBefore(f) # {} /\ JointAfter(f) # {}
  THEN LET fr0 == MaxOf(JointBefore(f))
           fr1 == MinOf(JointAfter(f))
       IN [by |-> by, fr0 |-> fr0, fr1 |-> fr1,
           w0 |-> <<fr1 - f, fr1 - fr0>>, w1 |-> <<f - fr0, fr1 - fr0>>]
  ELSE IF JointBefore(f) = {}
  THEN [by |-> by, fr0 |-> MinOf(JointAfter(f)), fr1 |-> MinOf(JointAfter(f))]
  ELSE [by |-> by, fr0 |-> MaxOf(JointBefore(f)), fr1 |-> MaxOf(JointBefore(f))]

\* C24: recover_marker_rel, when it returns updated=True, fills exactly the
\* frames where every cluster marker is valid and the target is not; a
\* filled frame between two jointly valid frames takes the nearest one on
\* each side with the weights b/(a+b) and a/(a+b), a filled frame before
\* the first or after the last jointly valid frame takes the single nearest
C24_RelFill ==
  (Called /\ last.strategy = "rel" /\ last.updated) =>
     \A f \in Frames :
        IF ClValid(f) /\ ~PreValid(f)
        THEN /\ pos[TgtName][f] = RecoveredPos("rel", f)
             /\ resid[TgtName][f] = Recovered
        ELSE /\ pos[TgtName][f] = last.pre_pos[f]
             /\ resid[TgtName][f] = last.pre_resid[f]

C24_Witness ==
  /\ last.strategy = "rel" /\ last.updated
  /\ \E f, h \in Frames :
        /\ pos[TgtName][f].by = "rel" /\ pos[TgtName][f].fr0 > f
        /\ pos[TgtName][h].by = "rel"
        /\ pos[TgtName][h].fr0 < h /\ h < pos[TgtName][h].fr1
        /\ pos[TgtName][h].w0 = <<1, 2>>
  /\ \E f \in Frames : ~ClValid(f) /\ ~PreValid(f)

\* C25: in recover_marker_rbt a frame with valid cluster and invalid target
\* before the first (after the last) jointly valid frame is rebuilt from
\* that frame alone, and a frame between two jointly valid frames blends
\* the estimates of the nearest one on each side with the weights b/(a+b)
\* and a/(a+b)
C25_RbtFill ==
  (Called /\ last.strategy = "rbt" /\ last.updated) =>
     \A f \in Frames :
        (ClValid(f) /\ ~PreValid(f)) =>
           /\ pos[TgtName][f] = RecoveredPos("rbt", f)
           /\ (JointBefore(f) = {} \/ JointAfter(f) = {})
                 => "w0" \notin DOMAIN pos[TgtName][f]

C25_Witness ==
  /\ last.strategy = "rbt" /\ last.updated
  /\ \E f, h \in Frames :
        /\ pos[TgtName][f].by = "rbt" /\ pos[TgtName][f].fr0 > f
        /\ "w0" \notin DOMAIN pos[TgtName][f]
        /\ pos[TgtName][h].by = "rbt"
        /\ pos[TgtName][h].fr0 < h /\ h < pos[TgtName][h].fr1
        /\ pos[TgtName][h].w0 = <<2, 3>> /\ pos[TgtName][h].w1 = <<1, 3>>

\* ============================================ local frame of recover_marker_rbt
\* recover_marker_rbt ranks the cluster markers by their mean distance to
\* the target (np.nanmean of the per-frame norm) and builds the local frame
\* from the first three.  The ranking is a function of the names passed and
\* of the distances; the distances are inputs here.
RankNames == {"CL1", "CL2", "CL3", "CL4"}
Dists == 1..3

\* cl_mkr_names as passed: three or four different markers in any order
NameOrders ==
  {q \in [1..3 -> RankNames] \cup [1..4 -> RankNames] :
      \A i, j \in DOMAIN q : i # j => q[i] # q[j]}

\* the cluster markers in the order they were passed
rbt_SortByDist_AsPassed(names, dist) == names

\* sorted(dict_cl_mkr_dist.items(), key=lambda kv: kv[1]): ascending by
\* distance; the sort is stable, so markers at the same distance stay in
\* dictionary order, which is the order of cl_mkr_names
RECURSIVE rbt_SortFrom(_, _, _, _)
rbt_SortFrom(names, dist, i, sorted) ==
  IF i > Len(names) THEN sorted
  ELSE LET x == names[i]
           k == Cardinality({j \in DOMAIN sorted : dist[sorted[j]] <= dist[x]})
       IN rbt_SortFrom(names, dist, i + 1,
                       SubSeq(sorted, 1, k) \o <<x>> \o SubSeq(sorted, k + 1, Len(sorted)))

rbt_SortByDist(names, dist) == rbt_SortFrom(names, dist, 1, <<>>)

\* p0, p1, p2: origin, x axis and plane marker of the local frame
rbt_Frame(names, dist) == SubSeq(rbt_SortByDist(names, dist), 1, 3)

RbtFrame ==
  /\ Idle
  /\ \E names \in NameOrders :
     \E dist \in [{names[i] : i \in DOMAIN names} -> Dists] :
        last' = [strategy |-> "rbt_frame", so |-> 0, mn |-> 0,
                 raised |-> FALSE, updated |-> FALSE, n |-> 0,
                 pre_resid |-> <<>>, pre_pos |-> <<>>, writes |-> <<>>,
                 log |-> "", names |-> names, dist |-> dist,
                 frame |-> rbt_Frame(names, dist)]
  /\ UNCHANGED <<resid, pos, plates, fpout>>

NextRank ==
  \/ RbtFrame
  \/ Return

SpecRank == InitSet /\ [][NextRank]_vars

Ranked == last.strategy = "rbt_frame"
Passed == {last.names[i] : i \in DOMAIN last.names}
InFrame == {last.frame[i] : i \in 1..3}
PassedAt(m) == CHOOSE i \in DOMAIN last.names : last.names[i] = m
Reorders ==
  {q \in [DOMAIN last.names -> Passed] : \A i, j \in DOMAIN q : i # j => q[i] # q[j]}

\* C26 as claimed: the local frame is made of the three cluster markers
\* nearest to the target in ascending order of distance, and is the same
\* for every order in which the cluster names are passed
C26_Original ==
  Ranked =>
     /\ \A i \in 1..2 : last.dist[last.frame[i]] <= last.dist[last.frame[i + 1]]
     /\ \A m \in Passed \ InFrame : last.dist[last.frame[3]] <= last.dist[m]
     /\ \A q \in Reorders : rbt_Frame(q, last.dist) = last.frame

\* C26: the local frame is made of three cluster markers in ascending order
\* of mean distance to the target (nearest = origin, second = x axis, third
\* = plane), and no marker left out is nearer than one taken; markers at
\* equal distance are ranked in the order their names were passed, so the
\* frame is independent of that order when the distances differ
C26_FrameByDistance ==
  Ranked =>
     /\ Len(last.frame) = 3 /\ Cardinality(InFrame) = 3 /\ InFrame \subseteq Passed
     /\ \A i \in 1..2 :
           \/ last.dist[last.frame[i]] < last.dist[last.frame[i + 1]]
           \/ /\ last.dist[last.frame[i]] = last.dist[last.frame[i + 1]]
              /\ PassedAt(last.frame[i]) < PassedAt(last.frame[i + 1])
     /\ \A m \in Passed \ InFrame :
           \/ last.dist[last.frame[3]] < last.dist[m]
           \/ /\ last.dist[last.frame[3]] = last.dist[m]
              /\ PassedAt(last.frame[3]) < PassedAt(m)
     /\ (\A m1, m2 \in Passed : m1 # m2 => last.dist[m1] # last.dist[m2])
           => \A q \in Reorders : rbt_Frame(q, last.dist) = last.frame

C26_Witness ==
  /\ Ranked
  /\ last.names = <<"CL3", "CL1", "CL2">>
  /\ last.dist["CL1"] = 1 /\ last.dist["CL2"] = 2 /\ last.dist["CL3"] = 3
  /\ last.frame = <<"CL1", "CL2", "CL3">>

\* ================================================== valid frames are kept
\* C27: over any sequence of fill calls the target's valid frames never
\* shrink: a frame whose residual is not -1 before a call has the same
\* position and residual after it, and a frame that was blocked and that
\* the call did not fill still has residual -1
C27_ValidFramesKept ==
  (Called /\ last.strategy \in {"rel", "rbt", "gaprbt", "pattern", "interp"}) =>
     \A f \in Frames :
        /\ PreValid(f) => /\ pos[TgtName][f] = last.pre_pos[f]
                          /\ resid[TgtName][f] = last.pre_resid[f]
        /\ (~PreValid(f) /\ f \notin FilledFrames) => resid[TgtName][f] = Blocked
        /\ f \in FilledFrames => resid[TgtName][f] # Blocked

\* a second call on a target that an earlier call recovered in part: the
\* recovered frames (residual 0) are valid for it and are kept
C27_Witness ==
  /\ Called /\ last.updated
  /\ \E f, g, h \in Frames :
        /\ last.pre_resid[f] = Recovered /\ last.pre_pos[f].by # "file"
        /\ pos[TgtName][f] = last.pre_pos[f]
        /\ g \in FilledFrames
        /\ ~PreValid(h) /\ h \notin FilledFrames

\* ===================================================== the same call again
\* A caller that repeats a cluster strategy with the same arguments right
\* after it returned: last keeps the pair the first call returned.
FinishAgain(strategy, tgt_mkr_name, out) ==
  /\ pos' = IF out.updated THEN set_marker_pos(tgt_mkr_name, out.coords) ELSE pos
  /\ resid' = IF out.updated THEN set_marker_resid(tgt_mkr_name, out.res) ELSE resid
  /\ last' = [strategy |-> strategy, so |-> 0, mn |-> 0,
              raised |-> out.raised, updated |-> out.updated, n |-> out.n,
              pre_resid |-> resid[tgt_mkr_name], pre_pos |-> pos[tgt_mkr_name],
              writes |-> IF out.updated
                         THEN PosWrites(tgt_mkr_name) \o ResidWrites(tgt_mkr_name, out.res)
                         ELSE <<>>,
              log |-> out.log,
              first_updated |-> last.updated, first_n |-> last.n]
  /\ UNCHANGED <<plates, fpout>>

\* the first call of the strategy returned and has not been repeated yet
ReturnedOnce(strategy) ==
  /\ last.strategy = strategy
  /\ ~last.raised
  /\ "first_n" \notin DOMAIN last

RecoverMarkerRelAgain ==
  /\ ReturnedOnce("rel")
  /\ \E out \in {recover_marker_rel(TgtName, ClNames)} :
     FinishAgain("rel", TgtName, out)

RecoverMarkerRbtAgain ==
  /\ ReturnedOnce("rbt")
  /\ \E out \in {recover_marker_rbt(TgtName, ClNames)} :
     FinishAgain("rbt", TgtName, out)

FillMarkerGapRbtAgain ==
  /\ ReturnedOnce("gaprbt")
  /\ \E out \in {fill_marker_gap_rbt(TgtName, ClNames)} :
     FinishAgain("gaprbt", TgtName, out)

NextAgain ==
  \/ RecoverMarkerRel
  \/ RecoverMarkerRbt
  \/ FillMarkerGapRbt
  \/ RecoverMarkerRelAgain
  \/ RecoverMarkerRbtAgain
  \/ FillMarkerGapRbtAgain
  \/ Return

SpecAgain == Init /\ [][NextAgain]_vars

Repeated == "first_n" \in DOMAIN last

\* C28: a cluster strategy called a second time with the same arguments
\* right after a first call returned gives updated=False with the valid
\* count the first call returned, and writes nothing, also when the target
\* is not fully recovered
C28_RepeatIsNoOp ==
  Repeated =>
     /\ ~last.raised
     /\ ~last.updated
     /\ last.n = last.first_n
     /\ NoWrite

C28_Witness ==
  /\ Repeated
  /\ last.strategy = "gaprbt"
  /\ last.first_updated
  /\ ~last.updated
  /\ last.n = last.first_n
  /\ last.n < NFrames

\* ============================================== the loops over the gaps
\* fill_marker_gap_pattern and fill_marker_gap_interp walk the gaps one
\* after the other and assign into tgt_mkr_coords and tgt_mkr_resid as they
\* go; w is the working copy: [coords, res, raised, updated].
\* a loop that looks at the residuals as they are when a gap is reached
LoopMask_Current(tgt_mkr_valid_mask, tgt_mkr_resid) == ValidMask(tgt_mkr_resid)

\* the validity mask a gap is tested against: tgt_mkr_valid_mask, computed
\* before the loop and not assigned to inside it
LoopMask(tgt_mkr_valid_mask, tgt_mkr_resid) == tgt_mkr_valid_mask

InGap(gap, f) == \E j \in DOMAIN gap : gap[j] = f

RECURSIVE pattern_Loop(_, _, _, _, _, _, _)
pattern_Loop(gaps, i, w, tgt_mkr_valid_mask, dnr_mkr_valid_mask, search_span_offset, min_needed_frs) ==
  IF i > Len(gaps) \/ w.raised THEN w
  ELSE
  LET gap == gaps[i]
      mask == LoopMask(tgt_mkr_valid_mask, w.res)
  IN IF pattern_GapRejected(gap, mask, dnr_mkr_valid_mask, search_span_offset, min_needed_frs)
     THEN pattern_Loop(gaps, i + 1, w, tgt_mkr_valid_mask, dnr_mkr_valid_mask,
                       search_span_offset, min_needed_frs)
     ELSE
  LET r == [f \in Frames |->
              IF InGap(gap, f)
              THEN pattern_Frame(gap, f, mask, dnr_mkr_valid_mask, search_span_offset)
              ELSE NoFrame]
  IN IF \E f \in Frames : r[f].raised
     THEN [w EXCEPT !.raised = TRUE]
     ELSE pattern_Loop(gaps, i + 1,
            [coords |-> [f \in Frames |->
                           IF r[f].fill THEN FillPos("pattern", r[f].fr0, r[f].fr1)
                           ELSE w.coords[f]],
             res |-> [f \in Frames |-> IF r[f].fill THEN Recovered ELSE w.res[f]],
             raised |-> FALSE,
             updated |-> w.updated \/ \E f \in Frames : r[f].fill],
            tgt_mkr_valid_mask, dnr_mkr_valid_mask, search_span_offset, min_needed_frs)

RECURSIVE interp_Loop(_, _, _, _, _, _, _)
interp_Loop(gaps, i, w, tgt_mkr_valid_mask, k, search_span_offset, min_needed_frs) ==
  IF i > Len(gaps) \/ w.raised THEN w
  ELSE
  LET gap == gaps[i]
      mask == LoopMask(tgt_mkr_valid_mask, w.res)
      r == interp_Gap(gap, mask, k, search_span_offset, min_needed_frs)
  IN IF r.raised THEN [w EXCEPT !.raised = TRUE]
     ELSE IF ~r.fill
     THEN interp_Loop(gaps, i + 1, w, tgt_mkr_valid_mask, k,
                      search_span_offset, min_needed_frs)
     ELSE interp_Loop(gaps, i + 1,
            [coords |-> [f \in Frames |->
                           IF InGap(gap, f) THEN FillPos("interp", r.fr0, r.fr1)
                           ELSE w.coords[f]],
             res |-> [f \in Frames |-> IF InGap(gap, f) THEN Recovered ELSE w.res[f]],
             raised |-> FALSE,
             updated |-> TRUE],
            tgt_mkr_valid_mask, k, search_span_offset, min_needed_frs)

\* fill_marker_gap_pattern, gap by gap
pattern_Call(tgt_mkr_name, dnr_mkr_name, search_span_offset, min_needed_frs) ==
  IF ~MarkerPresent(tgt_mkr_name) THEN Raise ELSE
  LET tgt_mkr_valid_mask == ValidMask(resid[tgt_mkr_name])
      n_tgt_mkr_valid_frs == CountNonzero(tgt_mkr_valid_mask)
  IN IF n_tgt_mkr_valid_frs = 0 THEN Skip(n_tgt_mkr_valid_frs, NoValidTarget)
     ELSE IF n_tgt_mkr_valid_frs = NFrames THEN Skip(n_tgt_mkr_valid_frs, AllTargetValid)
     ELSE IF ~MarkerPresent(dnr_mkr_name) THEN Raise
     ELSE
  LET dnr_mkr_valid_mask == ValidMask(resid[dnr_mkr_name])
  IN IF ~NpAny(dnr_mkr_valid_mask) THEN Skip(n_tgt_mkr_valid_frs, NoValidDonor)
     ELSE IF ~NpAny(MaskAnd(tgt_mkr_valid_mask, dnr_mkr_valid_mask))
     THEN Skip(n_tgt_mkr_valid_frs, NoCommonDonor)
     ELSE
  LET w == pattern_Loop(InvalidGaps(tgt_mkr_valid_mask), 1,
              [coords |-> pos[tgt_mkr_name], res |-> resid[tgt_mkr_name],
               raised |-> FALSE, updated |-> FALSE],
              tgt_mkr_valid_mask, dnr_mkr_valid_mask,
              search_span_offset, min_needed_frs)
  IN IF w.raised THEN Raise
     ELSE IF w.updated THEN Out(FALSE, TRUE, UpdatedCount(w.res), w.coords, w.res)
     ELSE Skip(n_tgt_mkr_valid_frs, NoReason)

\* fill_marker_gap_interp, gap by gap
interp_Call(tgt_mkr_name, k, search_span_offset, min_needed_frs) ==
  IF ~MarkerPresent(tgt_mkr_name) THEN Raise ELSE
  LET tgt_mkr_valid_mask == ValidMask(resid[tgt_mkr_name])
      n_tgt_mkr_valid_frs == CountNonzero(tgt_mkr_valid_mask)
  IN IF n_tgt_mkr_valid_frs = 0 THEN Skip(n_tgt_mkr_valid_frs, NoValidTarget)
     ELSE IF n_tgt_mkr_valid_frs = NFrames THEN Skip(n_tgt_mkr_valid_frs, AllTargetValid)
     ELSE
  LET w == interp_Loop(InvalidGaps(tgt_mkr_valid_mask), 1,
              [coords |-> pos[tgt_mkr_name], res |-> resid[tgt_mkr_name],
               raised |-> FALSE, updated |-> FALSE],
              tgt_mkr_valid_mask, k, search_span_offset, min_needed_frs)
  IN IF w.raised THEN Raise
     ELSE IF w.updated THEN Out(FALSE, TRUE, UpdatedCount(w.res), w.coords, w.res)
     ELSE Skip(n_tgt_mkr_valid_frs, NoReason)

\* the call is over; last also keeps the spline order
FinishLoop(strategy, tgt_mkr_name, so, mn, k, out) ==
  /\ pos' = IF out.updated THEN set_marker_pos(tgt_mkr_name, out.coords) ELSE pos
  /\ resid' = IF out.updated THEN set_marker_resid(tgt_mkr_name, out.res) ELSE resid
  /\ last' = [strategy |-> strategy, so |-> so, mn |-> mn, k |-> k,
              raised |-> out.raised, updated |-> out.updated, n |-> out.n,
              pre_resid |-> resid[tgt_mkr_name], pre_pos |-> pos[tgt_mkr_name],
              writes |-> IF out.updated
                         THEN PosWrites(tgt_mkr_name) \o ResidWrites(tgt_mkr_name, out.res)
                         ELSE <<>>,
              log |-> out.log]
  /\ UNCHANGED <<plates, fpout>>

FillMarkerGapPatternLoop ==
  /\ Idle
  /\ \E so \in SpanOffsets, mn \in MinNeededFrs :
     \E out \in {pattern_Call(TgtName, DnrName, so, mn)} :
        FinishLoop("pattern", TgtName, so, mn, 0, out)

FillMarkerGapInterpLoop ==
  /\ Idle
  /\ \E so \in SpanOffsets, mn \in MinNeededFrs, k \in {1, SplineK} :
     \E out \in {interp_Call(TgtName, k, so, mn)} :
        FinishLoop("interp", TgtName, so, mn, k, out)

NextLoop ==
  \/ FillMarkerGapPatternLoop
  \/ FillMarkerGapInterpLoop
  \/ Return

\* the two strategies read the target and the donor only: the target is
\* blocked on any set of frames, the donor on at most MaxInvalid frames
InitLoop ==
  /\ \E t \in ResidArrays(NFrames), c1 \in ResidArrays(MaxInvalid) :
        resid = [m \in Markers |->
                   IF m = "TGT" THEN t
                   ELSE IF m = "CL1" THEN c1
                   ELSE [f \in Frames |-> Measured]]
  /\ pos = [m \in Markers |-> [f \in Frames |-> FilePos(f)]]
  /\ last = NoCall
  /\ plates = NoPlates
  /\ fpout = NoFpCall

SpecLoop == InitLoop /\ [][NextLoop]_vars

\* ---- what the state before the call says about the gap of frame f
\* a window frame valid for target and donor on the side s of the gap
BothOnSide(f, lo) ==
  \E w \in Frames : /\ InWindow(f, w) /\ PreValid(w) /\ DnrValid(w)
                    /\ IF lo THEN w < f ELSE w > f
\* the loop is reached and the gap passes the tests at the head of its body
GapTried(f) ==
  /\ InInternalGap(f)
  /\ WindowTarget(f) >= last.mn
  /\ last.strategy = "pattern" =>
        /\ ~DnrBlockedInGap(f)
        /\ \E w \in Frames : PreValid(w) /\ DnrValid(w)
\* the loop body breaks on the gap: no second bracket frame to index (a
\* single one below the gap is indexed twice, at -1 and at 0), or too few
\* points for the spline
GapBreaks(f) ==
  /\ GapTried(f)
  /\ IF last.strategy = "pattern"
     THEN WindowBoth(f) < 2 /\ ~BothOnSide(f, TRUE)
     ELSE WindowTarget(f) <= last.k
\* the frame is to be filled
FillDue(f) ==
  /\ GapTried(f)
  /\ last.strategy = "pattern" => (BothOnSide(f, TRUE) /\ BothOnSide(f, FALSE))

\* C29: in fill_marker_gap_pattern and fill_marker_gap_interp the target
\* validity mask is taken once at the start of the call: whether the call
\* breaks and which frames it fills follow from the state before the call
\* alone, and the frames a filled frame was computed from are window frames
\* that were valid before the call, never frames filled for an earlier gap
C29_MaskTakenOnce ==
  (Called /\ last.strategy \in {"pattern", "interp"}) =>
     /\ last.raised <=> \E f \in Frames : GapBreaks(f)
     /\ ~last.raised =>
          \A f \in Frames :
             /\ f \in FilledFrames <=> FillDue(f)
             /\ f \in FilledFrames =>
                  \A w \in {pos[TgtName][f].fr0, pos[TgtName][f].fr1} :
                     PreValid(w) /\ InWindow(f, w)

C29_Witness ==
  /\ Called /\ last.updated
  /\ \E f, g \in Frames :
        /\ f < g
        /\ f \in FilledFrames /\ g \in FilledFrames
        /\ RunHi(f) < RunLo(g)
        /\ InWindow(g, f)
        /\ pos[TgtName][g].fr0 > f

\* ==================================================== a gap as a whole
\* f and g lie in the same run of frames that were invalid before the call
SameRun(f, g) ==
  /\ ~PreValid(f) /\ ~PreValid(g)
  /\ f <= g
  /\ PreBlockedRun(f, g)

\* C30: fill_marker_gap_rbt, fill_marker_gap_pattern and
\* fill_marker_gap_interp fill a gap as a whole or not at all: after a call
\* every maximal run of frames that were invalid before the call has
\* residual 0.0 on all of its frames or residual -1 on all of them
C30_GapAllOrNothing ==
  (Called /\ last.strategy \in {"gaprbt", "pattern", "interp"}) =>
     \A f, g \in Frames :
        SameRun(f, g) =>
           /\ resid[TgtName][f] \in {Blocked, Recovered}
           /\ resid[TgtName][f] = resid[TgtName][g]
           /\ (f \in FilledFrames) = (g \in FilledFrames)

C30_Witness ==
  /\ Called /\ last.updated
  /\ last.strategy = "gaprbt"
  /\ \E f, g, h \in Frames :
        /\ f < g /\ SameRun(f, g)
        /\ resid[TgtName][f] = Recovered /\ resid[TgtName][g] = Recovered
        /\ ~PreValid(h) /\ resid[TgtName][h] = Blocked
        /\ ClValid(h)

====
